---- MODULE Spec2Model ----
(***************************************************************************)
(* Model of grok-bot: the per-channel rolling chat history (bot/history.go) *)
(* on top of Go slices and a mutex, the Discord message handler, the        *)
(* sending of replies and the seeding of the history at startup             *)
(* (bot/bot.go), and the construction and formatting of chat messages and   *)
(* the HTTP exchange of the completion call (bot/grok_client.go).           *)
(***************************************************************************)
EXTENDS Integers, Sequences, FiniteSets, TLC

\* ------------------------------------------------------------------ bounds
\* Largest capacity handed to NewChatHistory / SetMax (arguments range over 0..MaxCap).
MaxCap == 3
\* Number of calls the history drivers issue in one behaviour.
MaxOps == 4
\* Largest configured max_message_size (config.Bot.MaxMessageSize).
MaxInline == 3

Procs == {"h1", "h2"}
Keys == {"c1", "c2"}
NoOwner == "none"

\* Backing arrays of the Go heap: enough for every slice that can be live at once.
ArrIds == 1..(Cardinality(Keys) + 2 * Cardinality(Procs))

CapArgs == 0..MaxCap

\* ------------------------------------------------------- messages and text
\* Text is a sequence of one-character strings.
T_a == <<"a">>
T_b == <<"b">>

StringContent(text) == [type |-> "string", text |-> text]
NilContent == [type |-> "nil"]

ZeroMsg == [Role |-> "", Content |-> NilContent, Username |-> <<>>]

CreateTextMessage(role, content, username) ==
    [Role |-> role, Content |-> StringContent(content), Username |-> username]

\* One part of a multimodal content: a text span or an image reference.
TextItem(text) == [Type |-> "text", Text |-> text, URL |-> ""]
ImageItem(url) == [Type |-> "image_url", Text |-> <<>>, URL |-> url]
ItemsContent(items) == [type |-> "items", items |-> items]

\* Faulty variant: a text part is emitted even for an empty text.
CreateMultimodalMessageAlwaysText(role, textContent, imageURLs, username) ==
    IF Len(imageURLs) = 0
    THEN CreateTextMessage(role, textContent, username)
    ELSE [Role |-> role,
          Content |-> ItemsContent(
              <<TextItem(textContent)>>
              \o [i \in 1..Len(imageURLs) |-> ImageItem(imageURLs[i])]),
          Username |-> username]

\* CreateMultimodalMessage: plain text without images, else the text part (when
\* not empty) followed by one image part per reference.
CreateMultimodalMessage(role, textContent, imageURLs, username) ==
    IF Len(imageURLs) = 0
    THEN CreateTextMessage(role, textContent, username)
    ELSE [Role |-> role,
          Content |-> ItemsContent(
              (IF textContent # <<>> THEN <<TextItem(textContent)>> ELSE <<>>)
              \o [i \in 1..Len(imageURLs) |-> ImageItem(imageURLs[i])]),
          Username |-> username]

\* A []ContentItem is a slice: the message holds a reference to its backing
\* array, and copying the message copies the reference, not the parts.
RefContent(ref) == [type |-> "itemsRef", ref |-> ref]

\* The message as stored in a ChatMessage value, its parts in array ref.
Box(v, ref) == IF v.Content.type = "items" THEN [v EXCEPT !.Content = RefContent(ref)] ELSE v

\* The content-part arrays after allocating the parts of a new message.
PartsAfter(pt, v) == IF v.Content.type = "items" THEN Append(pt, v.Content.items) ELSE pt

\* The message with its content parts read through the reference.
Deref(pt, m) ==
    IF m.Content.type = "itemsRef"
    THEN [m EXCEPT !.Content = ItemsContent(pt[m.Content.ref])]
    ELSE m

\* fmt.Sprintf("[%s]: %s", username, text)
Tag(username, text) == <<"[">> \o username \o <<"]", ":", " ">> \o text

\* The text parts of a []ContentItem rewritten with the username, the others copied.
TagItems(username, items) ==
    [j \in 1..Len(items) |->
        IF items[j].Type = "text"
        THEN [items[j] EXCEPT !.Text = Tag(username, items[j].Text)]
        ELSE items[j]]

\* Faulty variant: the role of the message is not tested.
FormatMessageAnyRole(msg) ==
    IF msg.Username # <<>>
    THEN IF msg.Content.type = "string"
         THEN [msg EXCEPT !.Content = StringContent(Tag(msg.Username, msg.Content.text))]
         ELSE IF msg.Content.type = "items"
         THEN [msg EXCEPT !.Content = ItemsContent(TagItems(msg.Username, msg.Content.items))]
         ELSE msg
    ELSE msg

\* CreateChatCompletion, one round of the loop of lines 87-106: the message as it
\* is put into the request.
FormatMessage(msg) ==
    IF msg.Username # <<>> /\ msg.Role = "user"
    THEN IF msg.Content.type = "string"
         THEN [msg EXCEPT !.Content = StringContent(Tag(msg.Username, msg.Content.text))]
         ELSE IF msg.Content.type = "items"
         THEN [msg EXCEPT !.Content = ItemsContent(TagItems(msg.Username, msg.Content.items))]
         ELSE msg
    ELSE msg

\* formattedMessages of lines 86-106, as json.Marshal then sees them.
FormatMessages(msgs) == [i \in 1..Len(msgs) |-> FormatMessage(msgs[i])]

\* Faulty variant: the text parts are rewritten in the array the message refers to.
FormatRequestInPlace(pt, msgs) ==
    [parts |-> [r \in 1..Len(pt) |->
                  IF \E i \in 1..Len(msgs) :
                        msgs[i].Content.type = "itemsRef" /\ msgs[i].Content.ref = r
                  THEN LET i == CHOOSE i \in 1..Len(msgs) :
                                  msgs[i].Content.type = "itemsRef" /\ msgs[i].Content.ref = r
                       IN FormatMessage(Deref(pt, msgs[i])).Content.items
                  ELSE pt[r]],
     wire |-> FormatMessages([i \in 1..Len(msgs) |-> Deref(pt, msgs[i])])]

\* Lines 86-106 on the messages the caller passed: the rewritten parts go to a new
\* array (newContent) that only the request holds; the arrays of the caller stay.
FormatRequest(pt, msgs) ==
    [parts |-> pt,
     wire |-> FormatMessages([i \in 1..Len(msgs) |-> Deref(pt, msgs[i])])]

\* strings.TrimSpace
IsSpace(c) == c \in {" ", "\t", "\n"}

RECURSIVE TrimLeft(_)
TrimLeft(s) == IF s # <<>> /\ IsSpace(Head(s)) THEN TrimLeft(Tail(s)) ELSE s

RECURSIVE TrimRight(_)
TrimRight(s) ==
    IF s # <<>> /\ IsSpace(s[Len(s)]) THEN TrimRight(SubSeq(s, 1, Len(s) - 1)) ELSE s

TrimSpace(s) == TrimRight(TrimLeft(s))

HasPrefix(s, pat) == Len(pat) <= Len(s) /\ SubSeq(s, 1, Len(pat)) = pat

\* strings.ReplaceAll(s, old, ""): non-overlapping occurrences, left to right
RECURSIVE RemoveAll(_, _)
RemoveAll(s, pat) ==
    IF Len(s) < Len(pat) \/ pat = <<>> THEN s
    ELSE IF HasPrefix(s, pat) THEN RemoveAll(SubSeq(s, Len(pat) + 1, Len(s)), pat)
    ELSE <<Head(s)>> \o RemoveAll(Tail(s), pat)

\* strings.Contains
RECURSIVE Contains(_, _)
Contains(s, pat) ==
    IF Len(s) < Len(pat) THEN FALSE
    ELSE HasPrefix(s, pat) \/ Contains(Tail(s), pat)

\* strings.ToLower on the letters the model's texts use
LowerChar(c) ==
    CASE c = "G" -> "g" [] c = "R" -> "r" [] c = "O" -> "o" [] c = "K" -> "k"
      [] c = "H" -> "h" [] c = "I" -> "i" [] OTHER -> c

ToLower(s) == [i \in 1..Len(s) |-> LowerChar(s[i])]

MsgPool == {CreateTextMessage("user", T_a, <<"a">>), CreateTextMessage("assistant", T_b, <<>>)}

\* ------------------------------------------------------------- Go slices
NilSlice == [arr |-> 0, off |-> 0, len |-> 0, cap |-> 0]

Elems(h, s) == [i \in 1..s.len |-> h[s.arr][s.off + i]]

SliceFrom(s, lo) == [arr |-> s.arr, off |-> s.off + lo, len |-> s.len - lo, cap |-> s.cap - lo]

Zeros(n) == [i \in 1..n |-> ZeroMsg]

\* append(s, m): in place when capacity is left, else into a fresh array a of doubled capacity.
GoAppend(h, s, m, a) ==
    IF s.len < s.cap
    THEN [heap |-> [h EXCEPT ![s.arr][s.off + s.len + 1] = m],
          slice |-> [s EXCEPT !.len = s.len + 1]]
    ELSE LET nc == IF s.cap = 0 THEN 1 ELSE 2 * s.cap
         IN [heap |-> [h EXCEPT ![a] = Elems(h, s) \o <<m>> \o Zeros(nc - s.len - 1)],
             slice |-> [arr |-> a, off |-> 0, len |-> s.len + 1, cap |-> nc]]

\* make([]ChatMessage, n) followed by copy(out, src)
GoMakeCopy(h, src, a) ==
    IF src.len = 0
    THEN [heap |-> h, slice |-> NilSlice]
    ELSE [heap |-> [h EXCEPT ![a] = Elems(h, src)],
          slice |-> [arr |-> a, off |-> 0, len |-> src.len, cap |-> src.len]]

\* Garbage collection: unreferenced arrays and cells no slice can reach are cleared.
Canon(h, roots) ==
    [a \in ArrIds |->
        LET rs == {s \in roots : s.arr = a}
        IN IF rs = {} THEN <<>>
           ELSE LET lo == CHOOSE o \in {s.off : s \in rs} : \A s \in rs : o <= s.off
                IN [i \in 1..Len(h[a]) |-> IF i <= lo THEN ZeroMsg ELSE h[a][i]]]

\* ------------------------------------------------------------------ state
VARIABLES
    maxMessages,        \* ChatHistory.maxMessages
    channelToMessages,  \* ChatHistory.channelToMessages: channel id -> slice
    mu,                 \* ChatHistory.mu: the process holding it, or NoOwner
    heap,               \* backing arrays of all []ChatMessage slices
    hpc,                \* position of each process in its current history call
    call,               \* the history call each process is making
    local,              \* the local slice of a call in progress (messages / src)
    retval,             \* value returned by the last Get / GetMax
    held,               \* slice a caller keeps from its last Get
    log,                \* ghost: messages appended per key, in store order
    seen,               \* ghost: what a call saw: the key's log (Get), the stored sequences (SetMax)
    setMaxSeen,         \* ghost: whether SetMax has run
    ops,                \* ghost: number of calls issued
    bpc,                \* position of each handleMessage invocation
    hs,                 \* locals and observable effects of each handleMessage invocation
    parts,              \* backing arrays of all []ContentItem slices, in allocation order
    fn,                 \* a pure function under test: its arguments and its result
    sd                  \* locals and effects of populateHistoryFromChannels on one channel

vars == <<maxMessages, channelToMessages, mu, heap, hpc, call, local, retval, held,
          log, seen, setMaxSeen, ops, bpc, hs, parts, fn, sd>>

\* Variables of the message handlers.
bvars == <<bpc, hs>>

NoCall == [op |-> "none", key |-> "", msg |-> ZeroMsg, n |-> 0]

Roots == {channelToMessages[k] : k \in DOMAIN channelToMessages}
            \cup {local[p] : p \in Procs} \cup {held[p] : p \in Procs}
            \cup {retval[p].slice : p \in Procs}

Live == {s.arr : s \in Roots} \ {0}

Fresh == CHOOSE a \in ArrIds \ Live : \A b \in ArrIds \ Live : a <= b

\* h.channelToMessages[channelID]: the zero value (nil slice) for a missing key
MapGet(m, k) == IF k \in DOMAIN m THEN m[k] ELSE NilSlice

\* Faulty variant: the assignment reaches every entry of the map.
MapSetEveryKey(m, k, s) == [x \in DOMAIN m \cup {k} |-> s]

\* h.channelToMessages[channelID] = messages
MapSet(m, k, s) == [x \in DOMAIN m \cup {k} |-> IF x = k THEN s ELSE m[x]]

\* The stored history of a key, as a sequence of messages.
Stored(k) == Elems(heap, MapGet(channelToMessages, k))

\* ------------------------------------------------------------ ChatHistory
NewChatHistory(max) == IF max <= 0 THEN 1 ELSE max

\* Faulty variant: methods that do not wait for the mutex.
TryLockNone(p) == TRUE

\* h.mu.Lock() succeeds only when nobody holds the mutex.
TryLock(p) == mu = NoOwner

\* Faulty variant: a method that returns without releasing the mutex.
UnlockNever(p) == mu

\* defer h.mu.Unlock(): the mutex after the return of a method p was in.
Unlock(p) == IF mu = p THEN NoOwner ELSE mu

\* Faulty variant: Append that keeps the oldest maxMessages entries instead of the newest.
AppendBodyKeepOldest(h, m, max, key, message, a) ==
    LET r == GoAppend(h, MapGet(m, key), message, a)
    IN IF r.slice.len > max
       THEN [heap |-> r.heap, slice |-> [r.slice EXCEPT !.len = max]]
       ELSE r

\* Append, lines 29-34: read the slice, append, trim to the last maxMessages.
AppendBody(h, m, max, key, message, a) ==
    LET r == GoAppend(h, MapGet(m, key), message, a)
    IN IF r.slice.len > max
       THEN [heap |-> r.heap, slice |-> SliceFrom(r.slice, r.slice.len - max)]
       ELSE r

\* Faulty variant: Get that returns the stored slice itself.
GetBodyAlias(h, m, src, key, a) == [heap |-> h, slice |-> src, map |-> m]

\* Faulty variant: Get that creates the map entry of the key it reads.
GetBodyCreatesEntry(h, m, src, key, a) ==
    LET r == GoMakeCopy(h, src, a)
    IN [heap |-> r.heap, slice |-> r.slice, map |-> MapSet(m, key, src)]

\* Get, lines 43-46: copy the stored slice into a new one; the map is only read.
GetBody(h, m, src, key, a) ==
    LET r == GoMakeCopy(h, src, a)
    IN [heap |-> r.heap, slice |-> r.slice, map |-> m]

\* Faulty variant: SetMax without the coercion of values below 1.
SetMaxNoCoerce(newMax) == newMax

SetMaxCoerce(newMax) == IF newMax <= 0 THEN 1 ELSE newMax

\* Faulty variant: SetMax that keeps the oldest entries of each channel.
SetMaxTrimAllKeepOldest(m, max) ==
    [cid \in DOMAIN m |-> IF m[cid].len > max THEN [m[cid] EXCEPT !.len = max] ELSE m[cid]]

\* SetMax, lines 58-62: trim every channel to its last maxMessages entries.
SetMaxTrimAll(m, max) ==
    [cid \in DOMAIN m |->
        IF m[cid].len > max THEN SliceFrom(m[cid], m[cid].len - max) ELSE m[cid]]

Result(s, n) == [slice |-> s, n |-> n]
NoResult == Result(NilSlice, 0)

\* p is not inside a method of the history store.
Outside(p) == hpc[p] \in {"idle", "ret"}

AppendCall(key, message) == [op |-> "Append", key |-> key, msg |-> message, n |-> 0]
GetCall(key) == [op |-> "Get", key |-> key, msg |-> ZeroMsg, n |-> 0]
SetMaxCall(newMax) == [op |-> "SetMax", key |-> "", msg |-> ZeroMsg, n |-> newMax]
GetMaxCall == [op |-> "GetMax", key |-> "", msg |-> ZeroMsg, n |-> 0]

\* Each method takes the mutex on entry and releases it on return (defer Unlock).
\* The caller's action fixes held' before using one of these steps.
AppendLock(p, key, message) ==
    /\ Outside(p)
    /\ TryLock(p)
    /\ Live # ArrIds
    /\ LET r == AppendBody(heap, channelToMessages, maxMessages, key, message, Fresh)
       IN /\ local' = [local EXCEPT ![p] = r.slice]
          /\ call' = [call EXCEPT ![p] = AppendCall(key, message)]
          /\ mu' = p
          /\ hpc' = [hpc EXCEPT ![p] = "lockedAppend"]
          /\ retval' = [retval EXCEPT ![p] = NoResult]
          /\ seen' = [seen EXCEPT ![p] = <<>>]
          /\ UNCHANGED <<maxMessages, channelToMessages, log, setMaxSeen>>
          /\ heap' = Canon(r.heap, Roots')

AppendStore(p) ==
    /\ hpc[p] = "lockedAppend"
    /\ channelToMessages' = MapSet(channelToMessages, call[p].key, local[p])
    /\ local' = [local EXCEPT ![p] = NilSlice]
    /\ mu' = Unlock(p)
    /\ hpc' = [hpc EXCEPT ![p] = "ret"]
    /\ log' = [log EXCEPT ![call[p].key] = Append(@, call[p].msg)]
    /\ UNCHANGED <<maxMessages, call, retval, seen, setMaxSeen>>
    /\ heap' = Canon(heap, Roots')

GetLock(p, key) ==
    /\ Outside(p)
    /\ TryLock(p)
    /\ mu' = p
    /\ local' = [local EXCEPT ![p] = MapGet(channelToMessages, key)]
    /\ call' = [call EXCEPT ![p] = GetCall(key)]
    /\ hpc' = [hpc EXCEPT ![p] = "lockedGet"]
    /\ retval' = [retval EXCEPT ![p] = NoResult]
    /\ seen' = [seen EXCEPT ![p] = <<>>]
    /\ UNCHANGED <<maxMessages, channelToMessages, log, setMaxSeen>>
    /\ heap' = Canon(heap, Roots')

GetCopy(p) ==
    /\ hpc[p] = "lockedGet"
    /\ Live # ArrIds
    /\ LET r == GetBody(heap, channelToMessages, local[p], call[p].key, Fresh)
       IN /\ channelToMessages' = r.map
          /\ retval' = [retval EXCEPT ![p] = Result(r.slice, 0)]
          /\ local' = [local EXCEPT ![p] = NilSlice]
          /\ mu' = Unlock(p)
          /\ hpc' = [hpc EXCEPT ![p] = "ret"]
          /\ seen' = [seen EXCEPT ![p] = log[call[p].key]]
          /\ UNCHANGED <<maxMessages, call, log, setMaxSeen>>
          /\ heap' = Canon(r.heap, Roots')

SetMaxLock(p, newMax) ==
    /\ Outside(p)
    /\ TryLock(p)
    /\ mu' = p
    /\ maxMessages' = SetMaxCoerce(newMax)
    /\ call' = [call EXCEPT ![p] = SetMaxCall(newMax)]
    /\ hpc' = [hpc EXCEPT ![p] = "lockedSetMax"]
    /\ retval' = [retval EXCEPT ![p] = NoResult]
    /\ seen' = [seen EXCEPT ![p] = [k \in Keys |-> Stored(k)]]
    /\ setMaxSeen' = TRUE
    /\ UNCHANGED <<channelToMessages, local, log>>
    /\ heap' = Canon(heap, Roots')

SetMaxTrim(p) ==
    /\ hpc[p] = "lockedSetMax"
    /\ channelToMessages' = SetMaxTrimAll(channelToMessages, maxMessages)
    /\ mu' = Unlock(p)
    /\ hpc' = [hpc EXCEPT ![p] = "ret"]
    /\ UNCHANGED <<maxMessages, call, local, retval, log, seen, setMaxSeen>>
    /\ heap' = Canon(heap, Roots')

GetMax(p) ==
    /\ Outside(p)
    /\ TryLock(p)
    /\ call' = [call EXCEPT ![p] = GetMaxCall]
    /\ retval' = [retval EXCEPT ![p] = Result(NilSlice, maxMessages)]
    /\ hpc' = [hpc EXCEPT ![p] = "ret"]
    /\ seen' = [seen EXCEPT ![p] = <<>>]
    /\ UNCHANGED <<maxMessages, channelToMessages, mu, local, log, setMaxSeen>>
    /\ heap' = Canon(heap, Roots')

\* The second half of a call in progress: the body under the mutex, then Unlock.
Finish(p) == AppendStore(p) \/ GetCopy(p) \/ SetMaxTrim(p)

\* ------------------------------------------------------- sendMessage
\* MaxDiscordFileSize = 8 * 1024 * 1024
MaxDiscordFileSize == 8388608

\* A character that stands for a run of MaxDiscordFileSize bytes of reply text.
Block == "#"

\* len(content) in bytes: one byte per character, except the run-length character.
RECURSIVE ByteLen(_)
ByteLen(text) ==
    IF text = <<>> THEN 0
    ELSE (IF Head(text) = Block THEN MaxDiscordFileSize ELSE 1) + ByteLen(Tail(text))

\* The step of a send at which the environment fails it, if any: creating the
\* temporary file, writing it, os.Stat, os.Open, or the Discord call.
SendFaults == {"none", "create", "write", "stat", "open", "send"}

\* Faulty variant: the deferred calls run only when the function succeeds.
ReturnedCleanupOnSuccess(calls, defers, err) ==
    [calls |-> IF err = "" THEN calls \o defers ELSE calls, err |-> err]

\* A return of sendAsMarkdownFile: the deferred calls (lines 321 and 346) run,
\* the last registered first, then the error goes to the caller.
Returned(calls, defers, err) == [calls |-> calls \o defers, err |-> err]

\* Faulty variant: the size of the file is not compared with the ceiling.
SendAsMarkdownFileNoCeiling(size, fault) ==
    IF fault = "create" THEN Returned(<<"createFailed">>, <<>>, "create")
    ELSE IF fault = "write"
    THEN Returned(<<"create", "write", "close">>, <<"remove">>, "write")
    ELSE IF fault = "stat"
    THEN Returned(<<"create", "write", "close", "stat">>, <<"remove">>, "stat")
    ELSE IF fault = "open"
    THEN Returned(<<"create", "write", "close", "stat", "open">>, <<"remove">>, "open")
    ELSE Returned(<<"create", "write", "close", "stat", "open", "file">>,
                  <<"closeReader", "remove">>,
                  IF fault = "send" THEN "send" ELSE "")

\* sendAsMarkdownFile for a content of size bytes: the calls it makes on the file
\* system and on Discord ("file" is ChannelFileSend), and the error it returns.
SendAsMarkdownFile(size, fault) ==
    IF fault = "create" THEN Returned(<<"createFailed">>, <<>>, "create")
    ELSE IF fault = "write"
    THEN Returned(<<"create", "write", "close">>, <<"remove">>, "write")
    ELSE IF fault = "stat"
    THEN Returned(<<"create", "write", "close", "stat">>, <<"remove">>, "stat")
    ELSE IF size > MaxDiscordFileSize
    THEN Returned(<<"create", "write", "close", "stat">>, <<"remove">>, "oversize")
    ELSE IF fault = "open"
    THEN Returned(<<"create", "write", "close", "stat", "open">>, <<"remove">>, "open")
    ELSE Returned(<<"create", "write", "close", "stat", "open", "file">>,
                  <<"closeReader", "remove">>,
                  IF fault = "send" THEN "send" ELSE "")

\* Faulty variant: a content of exactly the configured size goes to the file path.
SendMessageStrict(size, maxLength, fault) ==
    IF size < maxLength
    THEN [calls |-> <<"text">>, err |-> IF fault = "send" THEN "send" ELSE ""]
    ELSE SendAsMarkdownFile(size, fault)

\* sendMessage: "text" is ChannelMessageSend.
SendMessage(size, maxLength, fault) ==
    IF size <= maxLength
    THEN [calls |-> <<"text">>, err |-> IF fault = "send" THEN "send" ELSE ""]
    ELSE SendAsMarkdownFile(size, fault)

\* ------------------------------------------------------- handleMessage
BotID == "B"
UserID == "u1"
OtherID == "u2"

\* The textual trigger "@grok" (lines 206 and 213).
TriggerToken == <<"@", "g", "r", "o", "k">>

\* fmt.Sprintf("<@%s>", discord.State.User.ID)
BotMarkup == <<"<", "@", BotID, ">">>

\* config.Bot.DefaultSystemMessage
SystemPrompt == <<"s", "y", "s">>

\* The fixed text sent when the completion call fails.
ApologyText == <<"s", "o", "r", "r", "y">>

Texts ==
    { <<>>,
      <<" ", "h", "i", " ">>,
      <<"@", "g", "r", "o", "k", " ", "h", "i">>,
      <<"@", "G", "R", "O", "K">>,
      <<"h", "i", " ", "@", "G", "r", "O", "k">>,
      BotMarkup,
      BotMarkup \o <<" ", "h", "i">> }

\* An attachment: whether isImageAttachment accepts it, whether its download succeeds.
Attachment(image, ok, url) == [image |-> image, ok |-> ok, url |-> url]

AttachmentLists ==
    { <<>>,
      <<Attachment(TRUE, TRUE, "i1")>>,
      <<Attachment(FALSE, TRUE, "f1"), Attachment(TRUE, FALSE, "i2")>> }

MentionLists == { <<>>, <<OtherID, BotID>> }

UsernameOf(id) == IF id = BotID THEN <<"g">> ELSE <<"a">>

Events ==
    [author : {BotID, UserID}, text : Texts, mentions : MentionLists,
     attachments : AttachmentLists, channel : Keys]

\* Events of the handler that runs concurrently with the first one: a plain
\* message, mentioning the bot or not, in either channel.
ConcurrentEvents ==
    [author : {UserID}, text : {<<" ", "h", "i", " ">>}, mentions : MentionLists,
     attachments : {<<>>}, channel : Keys]

\* The first handler's channel is fixed; the other one runs in the same channel or
\* in another one.
EventsOf(p) == IF p = "h1" THEN {e \in Events : e.channel = "c1"} ELSE ConcurrentEvents

\* Outcomes of grokClient.CreateChatCompletion: a reply text or an error.
\* A short reply, a reply of exactly MaxDiscordFileSize bytes, and one byte more.
ReplyTexts == { <<"o", "k">>, <<Block>>, <<Block, "k">> }

\* config.Bot.MaxMessageSize
MaxMessageSize == MaxInline
\* The errors CreateChatCompletion returns, by kind: the request or the read of
\* the body failed, a structured error of the remote API, a bare status, or a
\* body that is not the expected response.
ErrorKinds == {"transport", "remote", "status", "protocol"}
Outcomes ==
    {[ok |-> TRUE, text |-> t, err |-> ""] : t \in ReplyTexts}
    \cup {[ok |-> FALSE, text |-> <<>>, err |-> e] : e \in ErrorKinds}

NoEvent == [author |-> "", text |-> <<>>, mentions |-> <<>>, attachments |-> <<>>,
            channel |-> ""]

NoHandler ==
    [ev |-> NoEvent, content |-> <<>>, imageURLs |-> <<>>, messages |-> <<>>,
     response |-> <<>>, appended |-> <<>>, fetches |-> 0, completions |-> 0,
     typing |-> 0, sent |-> <<>>,
     wire |-> <<>>,         \* the messages of the request as sent
     outcome |-> "none",    \* "ok" or the kind of error the completion call returned
     sendFailed |-> FALSE,  \* whether sendMessage returned an error
     sendErr |-> "",        \* the error sendMessage returned
     outbound |-> <<>>,     \* the calls made to send: Discord sends and file operations
     prior |-> <<>>,        \* ghost: the channel's log when the Get of line 267 read it
     before |-> <<>>,       \* ghost: the channel's stored history when the event arrived
     rivals |-> [q \in Procs |-> "idle"]]  \* ghost: the other handlers at that moment

\* imageToDataURL of a downloaded attachment
DataURL(att) == <<"data", att.url>>

\* Faulty variant: the first failed download ends the loop.
RECURSIVE ExtractImageURLsStopAtFailure(_)
ExtractImageURLsStopAtFailure(atts) ==
    IF atts = <<>> THEN <<>>
    ELSE IF ~Head(atts).image THEN ExtractImageURLsStopAtFailure(Tail(atts))
    ELSE IF ~Head(atts).ok THEN <<>>
    ELSE <<DataURL(Head(atts))>> \o ExtractImageURLsStopAtFailure(Tail(atts))

\* extractImageURLsFromAttachments: the supported images whose download succeeded
RECURSIVE ExtractImageURLs(_)
ExtractImageURLs(atts) ==
    IF atts = <<>> THEN <<>>
    ELSE IF ~Head(atts).image THEN ExtractImageURLs(Tail(atts))
    ELSE IF ~Head(atts).ok THEN ExtractImageURLs(Tail(atts))
    ELSE <<DataURL(Head(atts))>> \o ExtractImageURLs(Tail(atts))

\* The downloads extractImageURLsFromAttachments attempts.
Downloads(atts) == Cardinality({i \in 1..Len(atts) : atts[i].image})

\* Faulty variant: only the first mentioned user is compared.
doesMessageMentionFirst(users, id) == Len(users) >= 1 /\ users[1] = id

doesMessageMention(users, id) == \E i \in 1..Len(users) : users[i] = id

\* Faulty variant: the author check never matches.
IsOwnMessageNever(e) == FALSE

\* Line 250: the event was authored by the bot itself.
IsOwnMessage(e) == e.author = BotID

\* Faulty variant: the mention test with its negation lost.
AddressedInverted(e) == ~doesMessageMention(e.mentions, BotID)

\* Whether the live handler treats the event as addressed to the bot (line 259).
Addressed(e) == doesMessageMention(e.mentions, BotID)

\* Whether a handler has not started, is in progress, or has returned.
Progress(q) == IF bpc[q] \in {"idle", "done"} THEN bpc[q] ELSE "running"

\* Line 264: the live handler removes the bot's mention markup from the trimmed
\* text; nothing else is removed and the result is not trimmed again.
LiveClean(content) == RemoveAll(content, BotMarkup)

\* Lines 210-214: the seeding routine removes the markup, lower-cases the text to
\* remove the trigger token, and trims the result.
SeedClean(content) ==
    TrimSpace(RemoveAll(ToLower(RemoveAll(content, BotMarkup)), TriggerToken))

UserMessage(p) ==
    CreateMultimodalMessage("user", hs[p].content, hs[p].imageURLs, UsernameOf(hs[p].ev.author))

\* The ChatMessage a call of CreateMultimodalMessage returns: its parts, if any,
\* are in a newly allocated array.
NewUserMessage(p) == Box(UserMessage(p), Len(parts) + 1)

SystemMessage == [Role |-> "system", Content |-> StringContent(SystemPrompt), Username |-> <<>>]

\* Faulty variant: the request is assembled without the system prompt.
RequestMessagesNoSystem(prior, userMessage) == prior \o <<userMessage>>

\* Lines 268-271: the system prompt, the prior history, the new user message.
RequestMessages(prior, userMessage) == <<SystemMessage>> \o prior \o <<userMessage>>

\* One invocation of handleMessage per process, for one event. Lines 250-257:
\* events of the bot itself are dropped; otherwise the text is trimmed and the
\* attachments are resolved to image references.
DeliverOf(p, events) ==
    /\ bpc[p] = "idle" /\ hpc[p] = "idle"
    /\ \E e \in events :
        IF IsOwnMessage(e)
        THEN /\ bpc' = [bpc EXCEPT ![p] = "done"]
             /\ hs' = [hs EXCEPT ![p] = [NoHandler EXCEPT !.ev = e]]
        ELSE /\ bpc' = [bpc EXCEPT ![p] = "extracted"]
             /\ hs' = [hs EXCEPT ![p] = [NoHandler EXCEPT
                        !.ev = e,
                        !.content = TrimSpace(e.text),
                        !.imageURLs = ExtractImageURLs(e.attachments),
                        !.fetches = Downloads(e.attachments),
                        !.before = Stored(e.channel),
                        !.rivals = [q \in Procs |-> Progress(q)]]]
    /\ UNCHANGED <<maxMessages, channelToMessages, mu, heap, hpc, call, local, retval,
                   held, log, seen, setMaxSeen, ops, parts>>

Deliver(p) == DeliverOf(p, EventsOf(p))

\* Line 261: a message that does not mention the bot is appended as an observation.
Observe(p) ==
    /\ bpc[p] = "extracted"
    /\ ~Addressed(hs[p].ev)
    /\ bpc' = [bpc EXCEPT ![p] = "observing"]
    /\ hs' = [hs EXCEPT ![p].appended = Append(@, NewUserMessage(p))]
    /\ parts' = PartsAfter(parts, UserMessage(p))
    /\ UNCHANGED <<held, ops>>
    /\ AppendLock(p, hs[p].ev.channel, NewUserMessage(p))

\* Lines 264-267: strip the bot mention, then read the channel's history.
ReadPrior(p) ==
    /\ bpc[p] = "extracted"
    /\ Addressed(hs[p].ev)
    /\ bpc' = [bpc EXCEPT ![p] = "getting"]
    /\ hs' = [hs EXCEPT ![p].content = LiveClean(@)]
    /\ UNCHANGED <<held, ops, parts>>
    /\ GetLock(p, hs[p].ev.channel)

\* The rest of the history call a handler is in.
BotFinish(p) ==
    /\ bpc[p] # "idle"
    /\ UNCHANGED <<held, ops, bpc, hs, parts>>
    /\ Finish(p)

\* Lines 268-274: system prompt, prior history, the new user message; typing indicator.
BuildRequest(p) ==
    /\ bpc[p] = "getting" /\ hpc[p] = "ret"
    /\ bpc' = [bpc EXCEPT ![p] = "complete"]
    /\ hs' = [hs EXCEPT
                ![p].messages = RequestMessages(Elems(heap, retval[p].slice), NewUserMessage(p)),
                ![p].prior = seen[p],
                ![p].typing = @ + 1]
    /\ parts' = PartsAfter(parts, UserMessage(p))
    /\ hpc' = [hpc EXCEPT ![p] = "idle"]
    /\ retval' = [retval EXCEPT ![p] = NoResult]
    /\ call' = [call EXCEPT ![p] = NoCall]
    /\ seen' = [seen EXCEPT ![p] = <<>>]
    /\ UNCHANGED <<maxMessages, channelToMessages, mu, local, held, log, setMaxSeen, ops>>
    /\ heap' = Canon(heap, Roots')

\* The outcomes drawn for handler p: the replies that take the file path are
\* drawn once every other handler has returned; sending touches no shared state.
OutcomesOf(p) ==
    IF \A q \in Procs \ {p} : bpc[q] = "done"
    THEN Outcomes
    ELSE {o \in Outcomes : ByteLen(o.text) <= MaxMessageSize}

\* Faulty variant: the error of the completion call is not checked.
AfterCompletionIgnoreError(o) == "replied"

\* Line 278: an error ends the turn, a reply continues it.
AfterCompletion(o) == IF o.ok THEN "replied" ELSE "failed"

\* Line 277: the completion call returns a reply or an error.
Complete(p) ==
    /\ bpc[p] = "complete"
    /\ \E o \in OutcomesOf(p) :
        /\ bpc' = [bpc EXCEPT ![p] = AfterCompletion(o)]
        /\ hs' = [hs EXCEPT ![p].completions = @ + 1, ![p].response = o.text,
                             ![p].outcome = IF o.ok THEN "ok" ELSE o.err,
                             ![p].wire = FormatRequest(parts, hs[p].messages).wire]
    /\ parts' = FormatRequest(parts, hs[p].messages).parts
    /\ UNCHANGED <<maxMessages, channelToMessages, mu, heap, hpc, call, local, retval,
                   held, log, seen, setMaxSeen, ops>>

\* Faulty variant: the text sent on a failure names the error.
ApologyWithDetail(kind) == ApologyText \o <<kind>>

\* Line 280: the text sent on a failure is a literal.
ApologyFor(kind) == ApologyText

\* Lines 278-282: on an error the apology is sent and the handler returns.
Apologize(p) ==
    /\ bpc[p] = "failed"
    /\ bpc' = [bpc EXCEPT ![p] = "done"]
    /\ hs' = [hs EXCEPT ![p].sent = Append(@, ApologyFor(hs[p].outcome)),
                         ![p].outbound = @ \o <<"text">>]
    /\ UNCHANGED <<maxMessages, channelToMessages, mu, heap, hpc, call, local, retval,
                   held, log, seen, setMaxSeen, ops, parts>>

\* Line 285: append the user message.
AppendUser(p) ==
    /\ bpc[p] = "replied"
    /\ bpc' = [bpc EXCEPT ![p] = "appendingUser"]
    /\ hs' = [hs EXCEPT ![p].appended = Append(@, NewUserMessage(p))]
    /\ parts' = PartsAfter(parts, UserMessage(p))
    /\ UNCHANGED <<held, ops>>
    /\ AppendLock(p, hs[p].ev.channel, NewUserMessage(p))

\* Line 286: append the assistant message.
AppendAssistant(p) ==
    /\ bpc[p] = "appendingUser" /\ hpc[p] = "ret"
    /\ bpc' = [bpc EXCEPT ![p] = "appendingAssistant"]
    /\ hs' = [hs EXCEPT ![p].appended =
                Append(@, CreateTextMessage("assistant", hs[p].response, <<>>))]
    /\ UNCHANGED <<held, ops, parts>>
    /\ AppendLock(p, hs[p].ev.channel, CreateTextMessage("assistant", hs[p].response, <<>>))

\* Faulty variant: the reply may be sent as soon as the completion call returned.
ReadyToSendEarly(p) ==
    \/ bpc[p] = "replied"
    \/ bpc[p] = "appendingAssistant" /\ hpc[p] = "ret"

\* Line 289 is reached when both appends of lines 285-286 have returned.
ReadyToSend(p) == bpc[p] = "appendingAssistant" /\ hpc[p] = "ret"

\* Faulty variant: a failed send of the reply is answered with the apology.
AfterSendApologize(err) == IF err # "" THEN "failed" ELSE "done"

\* Lines 290-292: the error of sendMessage is logged, and the handler returns.
AfterSend(err) == "done"

\* Lines 289-292: send the reply; a failure of the send is only logged.
SendReply(p) ==
    /\ ReadyToSend(p)
    /\ \E fault \in SendFaults :
        LET r == SendMessage(ByteLen(hs[p].response), MaxMessageSize, fault)
        IN /\ bpc' = [bpc EXCEPT ![p] = AfterSend(r.err)]
           /\ hs' = [hs EXCEPT ![p].sent = Append(@, hs[p].response),
                                ![p].sendFailed = (r.err # ""),
                                ![p].sendErr = r.err,
                                ![p].outbound = @ \o r.calls]
    /\ hpc' = [hpc EXCEPT ![p] = "idle"]
    /\ call' = [call EXCEPT ![p] = NoCall]
    /\ UNCHANGED <<maxMessages, channelToMessages, mu, heap, local, retval, held, log,
                   seen, setMaxSeen, ops, parts>>

\* The observation has been appended: the handler returns.
ObserveDone(p) ==
    /\ bpc[p] = "observing" /\ hpc[p] = "ret"
    /\ bpc' = [bpc EXCEPT ![p] = "done"]
    /\ hpc' = [hpc EXCEPT ![p] = "idle"]
    /\ call' = [call EXCEPT ![p] = NoCall]
    /\ UNCHANGED <<maxMessages, channelToMessages, mu, heap, local, retval, held, log,
                   seen, setMaxSeen, ops, hs, parts>>

\* ------------------------------------------ populateHistoryFromChannels
\* The seeding of one channel at startup (lines 143-240). The routine runs in the
\* goroutine of RunWithConfigAsync; its calls of the history store are made as
\* process SeedProc.
SeedProc == "h1"
SeedChannel == "c1"

\* Most messages of a fetched batch.
MaxFetched == 6
\* Most messages of a fetched batch that holds the less common kinds of message.
MaxMixed == 2

\* config.Bot.MaxHistory of the runs of the seeding: capacities below the floor
\* of the retry loop, and capacities that allow one and two retries.
SeedCaps == {1, 3, 10, 20}

Fetched(author, text, mentions, attachments) ==
    [author |-> author, text |-> text, mentions |-> mentions, attachments |-> attachments,
     channel |-> SeedChannel]

\* Messages of a channel: a user message that mentions the bot, one that does
\* not, a reply of the bot, and a message of the bot that is only white space.
SeedPool ==
    { Fetched(UserID, <<"h", "i">>, <<OtherID, BotID>>, <<>>),
      Fetched(UserID, <<"y", "o">>, <<>>, <<>>),
      Fetched(BotID, <<" ", "o", "k">>, <<>>, <<>>),
      Fetched(BotID, <<" ">>, <<>>, <<>>) }

\* The less common kinds: the textual trigger, an image alone, a file that is no
\* image, a mention with no other text, and a message without content.
MixedPool ==
    SeedPool \cup
    { Fetched(UserID, <<"@", "G", "r", "o", "k", " ", "h", "i">>, <<>>, <<>>),
      Fetched(UserID, <<>>, <<>>, <<Attachment(TRUE, TRUE, "i1")>>),
      Fetched(UserID, <<>>, <<>>, <<Attachment(FALSE, TRUE, "f1")>>),
      Fetched(UserID, BotMarkup, <<BotID>>, <<>>),
      Fetched(UserID, <<>>, <<>>, <<>>) }

ListsUpTo(pool, n) == UNION {[1..k -> pool] : k \in 0..n}

\* What discord.ChannelMessages can return, newest message first.
FetchLists == ListsUpTo(SeedPool, MaxFetched) \cup ListsUpTo(MixedPool, MaxMixed)

\* The errors of discord.ChannelMessages: the one whose text contains "unknown
\* component type", and any other.
FetchErrors == {"component", "other"}

\* The results of one call of discord.ChannelMessages with the given limit. live
\* is a ghost: the position in the list of the message a live handler is
\* handling, 0 when there is none.
FetchOutcomes(limit, lists) ==
    {[err |-> "", list |-> l, live |-> 0] : l \in {x \in lists : Len(x) <= limit}}
    \cup {[err |-> e, list |-> <<>>, live |-> 0] : e \in FetchErrors}

NoSeed ==
    [pc |-> "idle", batch |-> 0, err |-> "", messages |-> <<>>, i |-> 0, live |-> 0,
     tried |-> <<>>,     \* ghost: the limits of the fetches made, in order
     results |-> <<>>,   \* ghost: the error of each fetch ("" for a success)
     appended |-> <<>>]  \* ghost: the Appends issued, each with the index in
                         \* messages of the fetched message it was built from

\* Lines 173-178: messages that could not be parsed, or have neither content nor
\* attachments, are dropped.
IsValidMessage(m) == m.author # "" /\ (m.text # <<>> \/ Len(m.attachments) > 0)

ValidMessages(list) == SelectSeq(list, IsValidMessage)

\* Faulty variant: the retry loop has no floor above 1.
KeepTryingToOne(batchSize) == batchSize >= 1

\* Line 155: the condition of the retry loop.
KeepTrying(batchSize) == batchSize >= 5

\* Lines 149-170 after a fetch: a success leaves the loop with the valid messages,
\* to be processed from the oldest (the last of the list); "unknown component
\* type" halves the batch size; another error skips the channel.
AfterFetch(limit, next, r) ==
    [sd EXCEPT
        !.tried = Append(@, limit),
        !.results = Append(@, r.err),
        !.err = r.err,
        !.batch = next,
        !.messages = ValidMessages(r.list),
        !.i = Len(ValidMessages(r.list)),
        !.live = r.live,
        !.pc = IF r.err = "" THEN "scan"
               ELSE IF r.err = "component" THEN "retry"
               ELSE "skipped"]

SeedFrame ==
    UNCHANGED <<maxMessages, channelToMessages, mu, heap, hpc, call, local, retval, held,
                log, seen, setMaxSeen, ops, bpc, hs, parts>>

\* Line 149: the first fetch, with limit GetMax(); on "unknown component type"
\* the loop of line 155 starts at GetMax() / 2.
SeedFetch(outcomes) ==
    /\ sd.pc = "idle"
    /\ TryLock(SeedProc)
    /\ \E r \in outcomes : sd' = AfterFetch(maxMessages, maxMessages \div 2, r)
    /\ SeedFrame

\* Lines 155-165: one round of the retry loop; lines 167-170 when it ends with
\* an error.
SeedRetry(outcomes) ==
    /\ sd.pc = "retry"
    /\ IF KeepTrying(sd.batch)
       THEN \E r \in outcomes : sd' = AfterFetch(sd.batch, sd.batch \div 2, r)
       ELSE sd' = [sd EXCEPT !.pc = "skipped"]
    /\ SeedFrame

\* Lines 198-207: a mention of the bot, or the trigger token in any case.
SeedAddressed(m, content) ==
    \/ doesMessageMention(m.mentions, BotID)
    \/ content # <<>> /\ Contains(ToLower(content), TriggerToken)

\* Lines 209-215
SeedCleanContent(m, content) ==
    IF SeedAddressed(m, content) THEN SeedClean(content) ELSE content

\* Lines 186-217: whether the message at index i yields a user entry.
SeedKeeps(m) ==
    LET content == TrimSpace(m.text)
        imageURLs == ExtractImageURLs(m.attachments)
    IN /\ ~IsOwnMessage(m)
       /\ ~(content = <<>> /\ imageURLs = <<>>)
       /\ (SeedCleanContent(m, content) # <<>> \/ imageURLs # <<>>)

\* Line 219
SeedUserMessage(m) ==
    CreateMultimodalMessage("user", SeedCleanContent(m, TrimSpace(m.text)),
                            ExtractImageURLs(m.attachments), UsernameOf(m.author))

\* Faulty variant: the search for the reply runs to the newest message.
RECURSIVE ResponseAtNoWindow(_, _, _)
ResponseAtNoWindow(messages, i, j) ==
    IF ~(j >= 1) THEN 0
    ELSE IF IsOwnMessage(messages[j]) THEN j
    ELSE ResponseAtNoWindow(messages, i, j - 1)

\* Lines 225-237: the loop "for j := i - 1; j >= 0 && j > i-5; j--" that ends at
\* the first message of the bot; 0 when it finds none. Indices count from 1 here.
RECURSIVE ResponseAt(_, _, _)
ResponseAt(messages, i, j) ==
    IF ~(j >= 1 /\ j > i - 5) THEN 0
    ELSE IF IsOwnMessage(messages[j]) THEN j
    ELSE ResponseAt(messages, i, j - 1)

Entry(message, source) == [msg |-> message, src |-> source]

\* Lines 182-223: one round of the loop over the messages, oldest first; the
\* round of an addressed message that was appended goes on with the search for
\* the reply.
SeedScan ==
    /\ sd.pc = "scan"
    /\ Outside(SeedProc)
    /\ UNCHANGED <<held, ops, bpc, hs>>
    /\ IF sd.i = 0
       THEN /\ sd' = [sd EXCEPT !.pc = "done"]
            /\ UNCHANGED <<maxMessages, channelToMessages, mu, heap, hpc, call, local,
                           retval, log, seen, setMaxSeen, parts>>
       ELSE LET m == sd.messages[sd.i]
                message == Box(SeedUserMessage(m), Len(parts) + 1)
            IN IF SeedKeeps(m)
               THEN /\ sd' = [sd EXCEPT
                                !.appended = Append(@, Entry(message, sd.i)),
                                !.pc = IF SeedAddressed(m, TrimSpace(m.text))
                                       THEN "pair" ELSE "scan",
                                !.i = IF SeedAddressed(m, TrimSpace(m.text))
                                      THEN @ ELSE @ - 1]
                    /\ parts' = PartsAfter(parts, SeedUserMessage(m))
                    /\ AppendLock(SeedProc, SeedChannel, message)
               ELSE /\ sd' = [sd EXCEPT !.i = @ - 1]
                    /\ UNCHANGED <<maxMessages, channelToMessages, mu, heap, hpc, call,
                                   local, retval, log, seen, setMaxSeen, parts>>

\* Lines 223-237: the reply of the bot to the addressed message just appended.
SeedPair ==
    /\ sd.pc = "pair"
    /\ Outside(SeedProc)
    /\ UNCHANGED <<held, ops, bpc, hs, parts>>
    /\ LET j == ResponseAt(sd.messages, sd.i, sd.i - 1)
           responseContent == IF j = 0 THEN <<>> ELSE TrimSpace(sd.messages[j].text)
           message == CreateTextMessage("assistant", responseContent, <<>>)
       IN IF responseContent # <<>>
          THEN /\ sd' = [sd EXCEPT !.appended = Append(@, Entry(message, j)),
                                   !.pc = "scan", !.i = @ - 1]
               /\ AppendLock(SeedProc, SeedChannel, message)
          ELSE /\ sd' = [sd EXCEPT !.pc = "scan", !.i = @ - 1]
               /\ UNCHANGED <<maxMessages, channelToMessages, mu, heap, hpc, call, local,
                              retval, log, seen, setMaxSeen>>

\* The rest of the Append the seeding is in.
SeedFinish ==
    /\ sd.pc \in {"scan", "pair"}
    /\ UNCHANGED <<held, ops, bpc, hs, parts, sd>>
    /\ AppendStore(SeedProc)

\* ------------------------------------------- drivers of the history store
\* A driver process issues arbitrary calls, keeps the slice its last Get returned
\* and may modify that slice before its next call.
Begin(p) ==
    /\ hpc[p] = "idle"
    /\ ops < MaxOps
    /\ UNCHANGED bvars
    /\ ops' = ops + 1
    /\ held' = [held EXCEPT ![p] = NilSlice]

DoAppend(p) == Begin(p) /\ \E k \in Keys, m \in MsgPool : AppendLock(p, k, m)

DoGet(p) == Begin(p) /\ \E k \in Keys : GetLock(p, k)

DoSetMax(p) == Begin(p) /\ \E n \in CapArgs : SetMaxLock(p, n)

DoGetMax(p) == Begin(p) /\ GetMax(p)

DoFinish(p) == UNCHANGED <<held, ops, bpc, hs>> /\ Finish(p)

Return(p) ==
    /\ hpc[p] = "ret"
    /\ hpc' = [hpc EXCEPT ![p] = "idle"]
    /\ held' = [held EXCEPT ![p] = retval[p].slice]
    /\ retval' = [retval EXCEPT ![p] = NoResult]
    /\ call' = [call EXCEPT ![p] = NoCall]
    /\ seen' = [seen EXCEPT ![p] = IF call[p].op = "Get" THEN @ ELSE <<>>]
    /\ UNCHANGED <<maxMessages, channelToMessages, mu, heap, local, log, setMaxSeen, ops>>
    /\ UNCHANGED bvars

\* What a caller may do to the slice it got from Get: replace an element, reorder
\* two elements, remove the last element, append an element.
HeldReplace(p) ==
    \E i \in 1..held[p].len, m \in MsgPool :
        /\ heap[held[p].arr][held[p].off + i] # m
        /\ held' = held
        /\ heap' = [heap EXCEPT ![held[p].arr][held[p].off + i] = m]

HeldSwap(p) ==
    /\ held[p].len >= 2
    /\ LET a == held[p].arr
           i == held[p].off + 1
           j == held[p].off + held[p].len
       IN /\ heap[a][i] # heap[a][j]
          /\ held' = held
          /\ heap' = [heap EXCEPT ![a][i] = heap[a][j], ![a][j] = heap[a][i]]

HeldRemove(p) ==
    /\ held[p].len >= 1
    /\ held' = [held EXCEPT ![p].len = @ - 1]
    /\ heap' = Canon(heap, Roots')

HeldAppend(p) ==
    /\ held[p].arr # 0
    /\ Live # ArrIds
    /\ \E m \in MsgPool :
        LET r == GoAppend(heap, held[p], m, Fresh)
        IN /\ held' = [held EXCEPT ![p] = r.slice]
           /\ heap' = Canon(r.heap, Roots')

Mutate(p) ==
    /\ hpc[p] = "idle"
    /\ ops < MaxOps
    /\ ops' = ops + 1
    /\ UNCHANGED <<maxMessages, channelToMessages, mu, hpc, call, local, retval, log, seen,
                   setMaxSeen>>
    /\ UNCHANGED bvars
    /\ (HeldReplace(p) \/ HeldSwap(p) \/ HeldRemove(p) \/ HeldAppend(p))

\* ----------------------------- drivers that hold multimodal messages
\* The messages these drivers append: a text with an image, and a plain text.
PartMessages ==
    { CreateMultimodalMessage("user", <<"h", "i">>, <<DataURL(Attachment(TRUE, TRUE, "i1"))>>,
                              UsernameOf(UserID)),
      CreateTextMessage("assistant", T_b, <<>>) }

\* What a caller may write into a content part: another text, another image
\* reference.
EditedItem(item) ==
    IF item.Type = "text"
    THEN [item EXCEPT !.Text = <<"x">>]
    ELSE [item EXCEPT !.URL = DataURL(Attachment(TRUE, TRUE, "i2"))]

PartsAppend(p) ==
    /\ Begin(p)
    /\ \E k \in Keys, v \in PartMessages :
          /\ parts' = PartsAfter(parts, v)
          /\ AppendLock(p, k, Box(v, Len(parts) + 1))

PartsGet(p) == Begin(p) /\ UNCHANGED parts /\ \E k \in Keys : GetLock(p, k)

PartsFinish(p) == UNCHANGED <<held, ops, bpc, hs, parts>> /\ Finish(p)

PartsReturn(p) == UNCHANGED parts /\ Return(p)

\* The caller assigns to a field of a content part of a message in the slice it
\* got from Get: out[i].Content.([]ContentItem)[j].Text = ..., or .ImageURL.
\* The ChatMessage values were copied by Get (history.go:45); the Content of each
\* is a slice header that refers to the array of parts.
EditPart(p) ==
    /\ hpc[p] = "idle"
    /\ ops < MaxOps
    /\ ops' = ops + 1
    /\ \E i \in 1..held[p].len :
          LET m == heap[held[p].arr][held[p].off + i]
          IN /\ m.Content.type = "itemsRef"
             /\ \E j \in 1..Len(parts[m.Content.ref]) :
                   /\ parts[m.Content.ref][j] # EditedItem(parts[m.Content.ref][j])
                   /\ parts' = [parts EXCEPT ![m.Content.ref][j] = EditedItem(@)]
    /\ UNCHANGED <<maxMessages, channelToMessages, mu, heap, hpc, call, local, retval,
                   held, log, seen, setMaxSeen>>
    /\ UNCHANGED bvars

\* No pure function is under test in the specifications of the store and the handler.
NoFn == [op |-> "none"]

\* The state after construction, for a history of capacity NewChatHistory(n).
InitStore(n) ==
    /\ parts = <<>>
    /\ maxMessages = NewChatHistory(n)
    /\ channelToMessages = <<>>
    /\ mu = NoOwner
    /\ heap = [a \in ArrIds |-> <<>>]
    /\ hpc = [p \in Procs |-> "idle"]
    /\ call = [p \in Procs |-> NoCall]
    /\ local = [p \in Procs |-> NilSlice]
    /\ retval = [p \in Procs |-> NoResult]
    /\ held = [p \in Procs |-> NilSlice]
    /\ log = [k \in Keys |-> <<>>]
    /\ seen = [p \in Procs |-> <<>>]
    /\ setMaxSeen = FALSE
    /\ ops = 0
    /\ bpc = [p \in Procs |-> "idle"]
    /\ hs = [p \in Procs |-> NoHandler]
    /\ sd = NoSeed

Init == fn = NoFn /\ \E n \in CapArgs : InitStore(n)

NextHistory ==
    /\ UNCHANGED <<parts, fn, sd>>
    /\ \E p \in Procs :
        \/ DoAppend(p) \/ DoGet(p) \/ DoSetMax(p) \/ DoGetMax(p)
        \/ DoFinish(p) \/ Return(p)
        \/ Mutate(p)

SpecHistory == Init /\ [][NextHistory]_vars

NextBot ==
    /\ UNCHANGED <<fn, sd>>
    /\ \E p \in Procs :
        \/ Deliver(p) \/ Observe(p) \/ ObserveDone(p)
        \/ ReadPrior(p) \/ BuildRequest(p) \/ Complete(p) \/ Apologize(p)
        \/ AppendUser(p) \/ AppendAssistant(p) \/ SendReply(p)
        \/ BotFinish(p)

SpecBot == Init /\ [][NextBot]_vars

\* Handlers whose external calls may never return. The steps a handler takes by
\* itself (its calls of the history store and what lies between them) go on
\* whenever they can; the arrival of an event (which ends with the downloads of
\* line 257), the return of the completion call and the return of a send are
\* steps of the environment that need not happen.
OwnStep(p) ==
    /\ UNCHANGED <<fn, sd>>
    /\ \/ Observe(p) \/ ObserveDone(p) \/ ReadPrior(p) \/ BuildRequest(p)
       \/ AppendUser(p) \/ AppendAssistant(p) \/ BotFinish(p)

ExternalReturn(p) ==
    /\ UNCHANGED <<fn, sd>>
    /\ \/ DeliverOf(p, ConcurrentEvents) \/ Complete(p) \/ Apologize(p) \/ SendReply(p)

NextWait == \E p \in Procs : OwnStep(p) \/ ExternalReturn(p)

SpecWait == Init /\ [][NextWait]_vars /\ \A p \in Procs : WF_vars(OwnStep(p))

NextParts ==
    /\ UNCHANGED <<fn, sd>>
    /\ \E p \in Procs :
        \/ PartsAppend(p) \/ PartsGet(p) \/ PartsFinish(p) \/ PartsReturn(p)
        \/ EditPart(p)

SpecParts == Init /\ [][NextParts]_vars

\* The seeding of one channel with no live event.
InitSeed == fn = NoFn /\ \E n \in SeedCaps : InitStore(n)

NextSeed ==
    /\ UNCHANGED fn
    /\ \/ SeedFetch(FetchOutcomes(maxMessages, FetchLists))
       \/ SeedRetry(FetchOutcomes(sd.batch, FetchLists))
       \/ SeedScan \/ SeedPair \/ SeedFinish

SpecSeed == InitSeed /\ [][NextSeed]_vars

\* Startup with live events (RunWithConfigAsync, lines 88-98): the handler is
\* registered and the connection is open when the seeding starts, so a message
\* posted from then on is delivered to handleMessage, in a goroutine of its own,
\* and is also among the messages a later fetch of its channel returns.
LiveProc == "h2"

\* The fetches that return the message the live handler was called for: it is
\* newer than every message posted before the connection was opened.
LiveOutcomes(limit, lists) ==
    IF bpc[LiveProc] # "idle" /\ hs[LiveProc].ev.channel = SeedChannel
    THEN {[err |-> "", list |-> <<hs[LiveProc].ev>> \o l, live |-> 1] :
              l \in {x \in lists : Len(x) + 1 <= limit}}
    ELSE {}

StartupOutcomes(limit) ==
    FetchOutcomes(limit, ListsUpTo(SeedPool, MaxMixed))
        \cup LiveOutcomes(limit, ListsUpTo(SeedPool, MaxMixed))

NextStartup ==
    /\ UNCHANGED fn
    /\ \/ SeedFetch(StartupOutcomes(maxMessages))
       \/ SeedRetry(StartupOutcomes(sd.batch))
       \/ SeedScan \/ SeedPair \/ SeedFinish
       \/ /\ UNCHANGED sd
          /\ \/ Deliver(LiveProc) \/ Observe(LiveProc) \/ ObserveDone(LiveProc)
             \/ ReadPrior(LiveProc) \/ BuildRequest(LiveProc) \/ Complete(LiveProc)
             \/ Apologize(LiveProc) \/ AppendUser(LiveProc) \/ AppendAssistant(LiveProc)
             \/ SendReply(LiveProc) \/ BotFinish(LiveProc)

SpecStartup == InitSeed /\ [][NextStartup]_vars

\* The seeding with short batches only, for the progress of the routine. It runs
\* in a goroutine of its own and nothing it calls waits for another goroutine for
\* ever: it takes a step whenever it can.
ShortLists == ListsUpTo(SeedPool, MaxMixed)

NextSeedShort ==
    /\ UNCHANGED fn
    /\ \/ SeedFetch(FetchOutcomes(maxMessages, ShortLists))
       \/ SeedRetry(FetchOutcomes(sd.batch, ShortLists))
       \/ SeedScan \/ SeedPair \/ SeedFinish

SpecSeedLive == InitSeed /\ [][NextSeedShort]_vars /\ WF_vars(NextSeedShort)

\* ------------------------------------ CreateChatCompletion: the HTTP exchange
\* A response body is JSON or not. Of a JSON object the model keeps the two
\* fields the decoders read: "error" (absent, a string, or an object with message
\* and code) and "choices" (absent, a number, or an array of choices, each with
\* the "content" of its message: a string, an array of parts, or null).
JsonError(kind, message, code) == [kind |-> kind, message |-> message, code |-> code]
JsonContent(kind, text, items) == [kind |-> kind, text |-> text, items |-> items]
JsonChoices(kind, items) == [kind |-> kind, items |-> items]
JsonBody(error, choices) == [json |-> "object", error |-> error, choices |-> choices]
InvalidBody ==
    [json |-> "invalid", error |-> JsonError("absent", <<>>, <<>>),
     choices |-> JsonChoices("absent", <<>>)]

StatusOK == 200

\* json.Unmarshal(body, &xaiErr): fails on text that is not a JSON object and on
\* an "error" that is not an object; a missing field leaves the zero value.
UnmarshalXAIError(body) ==
    IF body.json # "object" \/ body.error.kind = "string"
    THEN [ok |-> FALSE, message |-> <<>>, code |-> <<>>]
    ELSE [ok |-> TRUE,
          message |-> IF body.error.kind = "object" THEN body.error.message ELSE <<>>,
          code |-> IF body.error.kind = "object" THEN body.error.code ELSE <<>>]

\* The Go value json.Unmarshal stores into an interface{}: a string for a JSON
\* string, a []interface{} for a JSON array, nil for null.
DecodeInterface(content) ==
    IF content.kind = "string" THEN [goType |-> "string", text |-> content.text, items |-> <<>>]
    ELSE IF content.kind = "array"
    THEN [goType |-> "[]interface{}", text |-> <<>>, items |-> content.items]
    ELSE [goType |-> "nil", text |-> <<>>, items |-> <<>>]

\* json.Unmarshal(body, &response): fails on text that is not a JSON object and
\* on "choices" that is not an array; missing "choices" leaves an empty slice.
UnmarshalResponse(body) ==
    IF body.json # "object" \/ body.choices.kind = "number"
    THEN [ok |-> FALSE, choices |-> <<>>]
    ELSE [ok |-> TRUE,
          choices |-> IF body.choices.kind = "array"
                      THEN [i \in 1..Len(body.choices.items) |->
                               DecodeInterface(body.choices.items[i])]
                      ELSE <<>>]

\* textContent.WriteString for each part of type text (lines 165-170)
RECURSIVE ConcatText(_)
ConcatText(items) ==
    IF items = <<>> THEN <<>>
    ELSE (IF Head(items).Type = "text" THEN Head(items).Text ELSE <<>>)
         \o ConcatText(Tail(items))

Failure(err, detail) == [ok |-> FALSE, text |-> <<>>, err |-> err, detail |-> detail, requests |-> 1]
NoDetail == [status |-> 0]

\* The type switch of lines 160-174 on the decoded content.
ExtractContent(v) ==
    IF v.goType = "string"
    THEN [ok |-> TRUE, text |-> v.text, err |-> "", detail |-> NoDetail, requests |-> 1]
    ELSE IF v.goType = "[]ContentItem"
    THEN [ok |-> TRUE, text |-> ConcatText(v.items), err |-> "", detail |-> NoDetail,
          requests |-> 1]
    ELSE Failure("contenttype", NoDetail)

\* Faulty variant: a structured error is reported even when its message is empty.
IsStructuredErrorAnyMessage(x) == x.ok

\* Line 143: the body is a structured error when it decodes and has a message.
IsStructuredError(x) == x.ok /\ x.message # <<>>

\* Faulty variant: the last choice is taken.
ChosenLast(choices) == choices[Len(choices)]

\* Line 159: response.Choices[0]
Chosen(choices) == choices[1]

\* Lines 130-175 for one outcome of the single g.Client.Do: a failure to send, a
\* failure to read the body, or a response of some status and body.
ReceiveCompletion(x) ==
    IF x.kind = "sendFailed" THEN Failure("send", NoDetail)
    ELSE IF x.kind = "readFailed" THEN Failure("read", NoDetail)
    ELSE IF x.status # StatusOK
    THEN IF IsStructuredError(UnmarshalXAIError(x.body))
         THEN Failure("api", [message |-> UnmarshalXAIError(x.body).message,
                              code |-> UnmarshalXAIError(x.body).code])
         ELSE Failure("status", [status |-> x.status, body |-> x.body])
    ELSE IF ~UnmarshalResponse(x.body).ok THEN Failure("unmarshal", NoDetail)
    ELSE IF Len(UnmarshalResponse(x.body).choices) = 0 THEN Failure("nochoices", NoDetail)
    ELSE ExtractContent(Chosen(UnmarshalResponse(x.body).choices))

\* ------------------------------------------------ pure functions under test
\* Most choices of a response body.
MaxChoices == 2
\* Most attachments of a message.
MaxAtts == 2

FnAttachments ==
    {Attachment(image, ok, url) : image \in BOOLEAN, ok \in BOOLEAN, url \in {"i1", "i2"}}

FnAttachmentLists == UNION {[1..n -> FnAttachments] : n \in 0..MaxAtts}

HttpStatuses == {200, 201, 400, 500}

JsonErrors ==
    {JsonError("absent", <<>>, <<>>), JsonError("string", <<>>, <<>>),
     JsonError("object", <<>>, <<"c">>), JsonError("object", <<"m">>, <<"c">>)}

JsonContents ==
    {JsonContent("string", <<"o", "k">>, <<>>), JsonContent("string", <<>>, <<>>),
     JsonContent("null", <<>>, <<>>),
     JsonContent("array", <<>>, <<TextItem(<<"a">>), ImageItem("i1"), TextItem(<<"b">>)>>)}

JsonChoiceLists ==
    {JsonChoices("absent", <<>>), JsonChoices("number", <<>>)}
    \cup {JsonChoices("array", c) : c \in UNION {[1..n -> JsonContents] : n \in 0..MaxChoices}}

Bodies == {InvalidBody} \cup {JsonBody(e, c) : e \in JsonErrors, c \in JsonChoiceLists}

Exchanges ==
    {[kind |-> k, status |-> 0, body |-> InvalidBody] : k \in {"sendFailed", "readFailed"}}
    \cup {[kind |-> "response", status |-> st, body |-> b] : st \in HttpStatuses, b \in Bodies}

\* Longest generated text, most image references, most messages of a request.
MaxTextLen == 3
MaxImages == 2
MaxMsgs == 2

Alphabet == {"H", "i", " "}

RECURSIVE TextsUpTo(_)
TextsUpTo(n) ==
    IF n = 0 THEN {<<>>}
    ELSE LET S == TextsUpTo(n - 1)
         IN S \cup {Append(t, c) : t \in {x \in S : Len(x) = n - 1}, c \in Alphabet}

FnTexts == Texts \cup TextsUpTo(MaxTextLen)

FnImages == UNION {[1..n -> {<<"data", "i1">>, <<"data", "i2">>}] : n \in 0..MaxImages}

FnRoles == {"system", "user", "assistant"}
FnUsernames == {<<>>, <<"a">>}

\* Contents a message of a request can have: text, or parts made by CreateMultimodalMessage.
FnContents ==
    {CreateMultimodalMessage("user", t, u, <<>>).Content :
        t \in {<<>>, <<"H", "i">>},
        u \in {<<>>, <<<<"data", "i1">>>>, <<<<"data", "i1">>, <<"data", "i2">>>>}}

FnMessages == [Role : FnRoles, Content : FnContents, Username : FnUsernames]

FnRequests == UNION {[1..n -> FnMessages] : n \in 0..MaxMsgs}

FnCall(op, text, role, images, username, msgs) ==
    [op |-> op, text |-> text, role |-> role, images |-> images, username |-> username,
     msgs |-> msgs, done |-> FALSE, out |-> <<>>]

\* Content sizes around the configured inline size and around the file ceiling.
SendSizes == 0..(MaxInline + 1) \cup {MaxDiscordFileSize, MaxDiscordFileSize + 1}

\* config.Bot.MaxMessageSize: Validate rejects values that are not positive.
InlineSizes == 1..MaxInline

SendCall(size, maxLength, fault) ==
    [op |-> "sendMessage", size |-> size, max |-> maxLength, fault |-> fault,
     done |-> FALSE, out |-> <<>>]

\* The content the cleaning steps receive has been trimmed (lines 191 and 254).
InitFn ==
    /\ InitStore(MaxCap)
    /\ \/ \E op \in {"LiveClean", "SeedClean"}, t \in FnTexts :
            fn = FnCall(op, TrimSpace(t), "", <<>>, <<>>, <<>>)
       \/ \E t \in FnTexts, r \in {"user", "assistant"}, u \in FnImages, n \in FnUsernames :
            fn = FnCall("CreateMultimodalMessage", t, r, u, n, <<>>)
       \/ \E ms \in FnRequests :
            fn = FnCall("FormatMessages", <<>>, "", <<>>, <<>>, ms)
       \/ \E size \in SendSizes, m \in InlineSizes, f \in SendFaults :
            fn = SendCall(size, m, f)
       \/ \E t \in {<<>>, <<"H", "i">>}, atts \in FnAttachmentLists :
            fn = [op |-> "userTurn", text |-> t, attachments |-> atts, done |-> FALSE,
                  out |-> <<>>]
       \/ \E x \in Exchanges :
            fn = [op |-> "CreateChatCompletion", exchange |-> x, done |-> FALSE, out |-> <<>>]

ApplyLiveClean ==
    /\ fn.op = "LiveClean" /\ ~fn.done
    /\ fn' = [fn EXCEPT !.done = TRUE, !.out = LiveClean(fn.text)]

ApplySeedClean ==
    /\ fn.op = "SeedClean" /\ ~fn.done
    /\ fn' = [fn EXCEPT !.done = TRUE, !.out = SeedClean(fn.text)]

ApplyCreateMultimodalMessage ==
    /\ fn.op = "CreateMultimodalMessage" /\ ~fn.done
    /\ fn' = [fn EXCEPT !.done = TRUE,
                        !.out = CreateMultimodalMessage(fn.role, fn.text, fn.images, fn.username)]

ApplyFormatMessages ==
    /\ fn.op = "FormatMessages" /\ ~fn.done
    /\ fn' = [fn EXCEPT !.done = TRUE, !.out = FormatMessages(fn.msgs)]

ApplySendMessage ==
    /\ fn.op = "sendMessage" /\ ~fn.done
    /\ fn' = [fn EXCEPT !.done = TRUE, !.out = SendMessage(fn.size, fn.max, fn.fault)]

ApplyReceiveCompletion ==
    /\ fn.op = "CreateChatCompletion" /\ ~fn.done
    /\ fn' = [fn EXCEPT !.done = TRUE, !.out = ReceiveCompletion(fn.exchange)]

\* Lines 257 and 261: the attachments are resolved and the user message is built.
ApplyUserTurn ==
    /\ fn.op = "userTurn" /\ ~fn.done
    /\ fn' = [fn EXCEPT
                !.done = TRUE,
                !.out = [imageURLs |-> ExtractImageURLs(fn.attachments),
                         message |-> CreateMultimodalMessage(
                                        "user", fn.text, ExtractImageURLs(fn.attachments),
                                        UsernameOf(UserID))]]

NextFn ==
    /\ UNCHANGED <<maxMessages, channelToMessages, mu, heap, hpc, call, local, retval, held,
                   log, seen, setMaxSeen, ops, bpc, hs, parts, sd>>
    /\ (ApplyLiveClean \/ ApplySeedClean \/ ApplyCreateMultimodalMessage
          \/ ApplyFormatMessages \/ ApplySendMessage \/ ApplyReceiveCompletion
          \/ ApplyUserTurn)

SpecFn == InitFn /\ [][NextFn]_vars

\* ------------------------------------------------ claims on the history store

Max(a, b) == IF a >= b THEN a ELSE b
Min(a, b) == IF a <= b THEN a ELSE b

IsSuffix(s, l) == Len(s) <= Len(l) /\ s = SubSeq(l, Len(l) - Len(s) + 1, Len(l))

LastN(s, n) == IF Len(s) <= n THEN s ELSE SubSeq(s, Len(s) - n + 1, Len(s))

\* C1: whenever no SetMax is between its two steps under the mutex, the stored
\* sequence of every channel key has length at most the current maxMessages,
\* under every interleaving of Append, Get, SetMax and GetMax by concurrent callers.
Thm_C1_LengthBounded ==
    (\A p \in Procs : hpc[p] # "lockedSetMax")
        => \A k \in DOMAIN channelToMessages : channelToMessages[k].len <= maxMessages

\* An Append has dropped the oldest entry of a full key.
Wit_C1_Trimmed ==
    \E k \in DOMAIN channelToMessages :
        /\ mu = NoOwner
        /\ Len(log[k]) > maxMessages
        /\ channelToMessages[k].len = maxMessages

\* C2: with capacity C and no SetMax, a Get that follows N Appends to its key
\* returns min(N, C) messages, the last C appended ones in the order of appending;
\* the stored sequence is the same suffix of the appended messages.
Thm_C2_LastCInOrder ==
    ~setMaxSeen =>
        /\ \A p \in Procs :
            (hpc[p] = "ret" /\ call[p].op = "Get") =>
                /\ retval[p].slice.len = Min(Len(seen[p]), maxMessages)
                /\ Elems(heap, retval[p].slice) = LastN(seen[p], maxMessages)
        /\ \A k \in Keys :
            (\A p \in Procs : hpc[p] = "lockedAppend" => call[p].key # k) =>
                Stored(k) = LastN(log[k], maxMessages)

\* A Get has returned after more Appends than the capacity (which is at least 2).
Wit_C2_GetAfterOverflow ==
    \E p \in Procs :
        /\ hpc[p] = "ret" /\ call[p].op = "Get"
        /\ ~setMaxSeen
        /\ maxMessages >= 2
        /\ Len(seen[p]) > maxMessages
        /\ retval[p].slice.len = maxMessages

\* C3: the step that completes SetMax(n) leaves in every key the last
\* min(length, max(n, 1)) entries of what it held, in unchanged order, and the
\* capacity that bounds later Appends is max(n, 1).
Thm_C3_SetMaxTrims ==
    [][\A p \in Procs :
        (hpc[p] = "lockedSetMax" /\ hpc'[p] = "ret") =>
            /\ maxMessages' = Max(call[p].n, 1)
            /\ DOMAIN channelToMessages' = DOMAIN channelToMessages
            /\ \A k \in Keys :
                /\ Stored(k)' = LastN(seen[p][k], Max(call[p].n, 1))
                /\ Len(Stored(k)') = Min(Len(seen[p][k]), Max(call[p].n, 1))]_vars

\* A SetMax has returned that trimmed one key and left a shorter key alone.
Wit_C3_SetMaxTrimmed ==
    \E p \in Procs, k1, k2 \in Keys :
        /\ hpc[p] = "ret" /\ call[p].op = "SetMax"
        /\ mu = NoOwner
        /\ Len(seen[p][k1]) > maxMessages
        /\ Len(Stored(k1)) = maxMessages
        /\ Len(seen[p][k2]) >= 1
        /\ Stored(k2) = seen[p][k2]

\* C4: maxMessages is at least 1 in every state, and GetMax never returns less.
Thm_C4_CapacityPositive ==
    /\ maxMessages >= 1
    /\ \A p \in Procs : (hpc[p] = "ret" /\ call[p].op = "GetMax") => retval[p].n >= 1

\* GetMax has returned 1 after SetMax was given a value below 1.
Wit_C4_Coerced ==
    \E p, q \in Procs :
        /\ hpc[p] = "ret" /\ call[p].op = "SetMax" /\ call[p].n <= 0
        /\ hpc[q] = "ret" /\ call[q].op = "GetMax" /\ retval[q].n = 1

\* C5: a step in which a caller modifies the slice it got from Get changes no
\* stored sequence, and a step of anyone else (Append, SetMax, Get, or another
\* caller modifying its own slice) changes neither a slice that Get has returned
\* nor one a caller holds.
Thm_C5_GetReturnsCopy ==
    [][/\ (\E p \in Procs : Mutate(p)) => \A k \in Keys : Stored(k)' = Stored(k)
       /\ \A p \in Procs :
            /\ (~Mutate(p) /\ held'[p] = held[p])
                    => Elems(heap', held[p]) = Elems(heap, held[p])
            /\ (hpc[p] = "ret" /\ call[p].op = "Get")
                    => Elems(heap', retval[p].slice) = Elems(heap, retval[p].slice)]_vars

\* A caller holds a Get result it has modified: it is no longer a suffix of what
\* had been appended to the key, while the store still holds such a suffix.
Wit_C5_CallerMutated ==
    \E p \in Procs, k \in Keys :
        /\ hpc[p] = "idle"
        /\ held[p].len >= 1
        /\ seen[p] = log[k]
        /\ ~IsSuffix(Elems(heap, held[p]), seen[p])
        /\ Len(Stored(k)) >= 1
        /\ IsSuffix(Stored(k), log[k])

\* C6: a Get on a key nothing was appended to returns the empty sequence and
\* neither of its steps changes the store: no entry appears for the key and the
\* capacity stays.
Thm_C6_GetUnseenKey ==
    [][\A p \in Procs :
        /\ (hpc[p] = "lockedGet" /\ hpc'[p] = "ret" /\ log[call[p].key] = <<>>) =>
            /\ retval'[p].slice.len = 0
            /\ call[p].key \notin DOMAIN channelToMessages'
        /\ (hpc'[p] = "lockedGet" \/ (hpc[p] = "lockedGet" /\ hpc'[p] = "ret")) =>
            /\ channelToMessages' = channelToMessages
            /\ maxMessages' = maxMessages
            /\ \A k \in Keys : Stored(k)' = Stored(k)]_vars

\* A Get on a never-used key has returned empty while another key has history.
Wit_C6_UnseenKey ==
    \E p \in Procs, k \in Keys :
        /\ hpc[p] = "ret" /\ call[p].op = "Get"
        /\ log[call[p].key] = <<>>
        /\ retval[p].slice.len = 0
        /\ call[p].key \notin DOMAIN channelToMessages
        /\ Len(Stored(k)) >= 1

\* ------------------------------------------------- claims on handleMessage

Done(p) == bpc[p] = "done"

HasTrigger(text) == Contains(ToLower(text), TriggerToken)

\* C7: a finished handler whose event was not authored by the bot and mentions
\* the bot has issued exactly one completion call, whatever the text.
Thm_C7_MentionAddressed ==
    \A p \in Procs :
        (Done(p) /\ hs[p].ev.author # BotID
            /\ (\E i \in 1..Len(hs[p].ev.mentions) : hs[p].ev.mentions[i] = BotID))
        => hs[p].completions = 1

\* A mention with empty text led to a completion call.
Wit_C7_MentionEmptyText ==
    \E p \in Procs :
        /\ Done(p) /\ hs[p].ev.author = UserID
        /\ hs[p].ev.text = <<>>
        /\ hs[p].ev.mentions = <<OtherID, BotID>>
        /\ hs[p].completions = 1

\* C8 (as claimed): a finished handler whose event was not authored by the bot,
\* does not mention the bot, and carries the trigger token in any letter case has
\* issued a completion call and sent a reply or an apology.
Cex_C8_TriggerAddressed ==
    \A p \in Procs :
        (Done(p) /\ hs[p].ev.author # BotID
            /\ ~(\E i \in 1..Len(hs[p].ev.mentions) : hs[p].ev.mentions[i] = BotID)
            /\ HasTrigger(hs[p].ev.text))
        => (hs[p].completions = 1 /\ Len(hs[p].sent) = 1)

\* C9: a finished handler whose event was not authored by the bot, does not
\* mention the bot and has no trigger token has appended exactly one message, of
\* role user, to its channel, and made no completion call and no send.
Thm_C9_ObservationOnly ==
    \A p \in Procs :
        (Done(p) /\ hs[p].ev.author # BotID
            /\ ~(\E i \in 1..Len(hs[p].ev.mentions) : hs[p].ev.mentions[i] = BotID)
            /\ ~HasTrigger(hs[p].ev.text))
        => /\ Len(hs[p].appended) = 1
           /\ hs[p].appended[1].Role = "user"
           /\ \E i \in 1..Len(log[hs[p].ev.channel]) :
                log[hs[p].ev.channel][i] = hs[p].appended[1]
           /\ hs[p].completions = 0
           /\ hs[p].typing = 0
           /\ hs[p].sent = <<>>

\* An unaddressed message with an image has been observed.
Wit_C9_Observed ==
    \E p \in Procs :
        /\ Done(p) /\ hs[p].ev.author = UserID
        /\ hs[p].ev.mentions = <<>>
        /\ ~HasTrigger(hs[p].ev.text)
        /\ Len(hs[p].imageURLs) = 1
        /\ Len(hs[p].appended) = 1
        /\ Len(Stored(hs[p].ev.channel)) >= 1

\* C10: a handler whose event was authored by the bot makes no history call, no
\* image fetch, no completion call, no typing indicator and no send, and its
\* step changes nothing in the history store.
Thm_C10_OwnMessageIgnored ==
    [][\A p \in Procs :
        /\ (hs'[p].ev.author = BotID) =>
            /\ hs'[p].appended = <<>> /\ hs'[p].fetches = 0 /\ hs'[p].completions = 0
            /\ hs'[p].typing = 0 /\ hs'[p].sent = <<>>
            /\ hpc'[p] = "idle"
            /\ bpc'[p] = "done"
        /\ (hs[p].ev.author # BotID /\ hs'[p].ev.author = BotID) =>
            /\ UNCHANGED <<maxMessages, channelToMessages, heap, log, mu>>]_vars

\* A bot-authored event with trigger text, a bot mention and an image was dropped.
Wit_C10_OwnMessage ==
    \E p \in Procs :
        /\ Done(p) /\ hs[p].ev.author = BotID
        /\ HasTrigger(hs[p].ev.text)
        /\ hs[p].ev.mentions = <<OtherID, BotID>>
        /\ Len(hs[p].ev.attachments) = 1
        /\ hs[p].fetches = 0

\* C11: the request handed to the completion call is the system message with the
\* configured prompt, then the channel history as one Get returned it (the last
\* maxMessages entries of the channel, oldest first), then the new user turn, which
\* is last and was not yet in the history; its length is at most maxMessages + 2.
Thm_C11_RequestShape ==
    \A p \in Procs :
        hs[p].messages # <<>> =>
            LET m == hs[p].messages
                n == Len(m)
            IN /\ n >= 2 /\ n <= maxMessages + 2
               /\ m[1] = [Role |-> "system", Content |-> StringContent(SystemPrompt),
                          Username |-> <<>>]
               /\ SubSeq(m, 2, n - 1) = LastN(hs[p].prior, maxMessages)
               /\ Deref(parts, m[n]).Role = "user"
               /\ Deref(parts, m[n]) = UserMessage(p)
               /\ (bpc[p] = "complete" => hs[p].appended = <<>>)

\* A request built over a history that had already been trimmed to the capacity.
Wit_C11_FullHistory ==
    \E p \in Procs :
        /\ hs[p].completions = 1
        /\ Len(hs[p].prior) > maxMessages
        /\ Len(hs[p].messages) = maxMessages + 2

\* No other handler ran between the arrival of p's event and now.
Alone(p) ==
    \A q \in Procs \ {p} : hs[p].rivals[q] # "running" /\ Progress(q) = hs[p].rivals[q]

\* C12: when the completion call fails, whatever the kind of error, the handler
\* makes no history append for the turn, sends the apology and stops; with no other
\* handler running the channel's history after the turn equals the one before it.
Thm_C12_FailureLeavesHistory ==
    \A p \in Procs :
        hs[p].outcome \in ErrorKinds =>
            /\ hs[p].appended = <<>>
            /\ bpc[p] \in {"failed", "done"}
            /\ hs[p].sent = (IF Done(p) THEN <<ApologyText>> ELSE <<>>)
            /\ (Alone(p) => Stored(hs[p].ev.channel) = hs[p].before)

\* A failed turn in a channel that already had history, with no other handler running.
Wit_C12_FailedTurn ==
    \E p \in Procs :
        /\ Done(p) /\ hs[p].outcome \in ErrorKinds
        /\ Alone(p) /\ hs[p].before # <<>>

\* C13: on success the handler appends the user turn, then the assistant message
\* with the returned text, and only then attempts the send: when the send is
\* attempted both entries are in the channel's history in that order, and they
\* stay there if the send fails.
Thm_C13_AppendBeforeSend ==
    \A p \in Procs :
        LET k == hs[p].ev.channel
            a == hs[p].appended
        IN /\ (hs[p].outcome = "ok" /\ Len(a) >= 1 =>
                    /\ Deref(parts, a[1]) = UserMessage(p)
                    /\ (Len(a) >= 2 => \E i \in 1..Len(log[k]) : log[k][i] = a[1]))
           /\ (hs[p].outcome = "ok" /\ hs[p].sent # <<>> =>
                    /\ hs[p].sent = <<hs[p].response>>
                    /\ Len(a) = 2
                    /\ a[2] = CreateTextMessage("assistant", hs[p].response, <<>>)
                    /\ \E i, j \in 1..Len(log[k]) :
                          i < j /\ log[k][i] = a[1] /\ log[k][j] = a[2]
                    /\ (Alone(p) =>
                          Stored(k) = LastN(hs[p].before \o a, maxMessages)))

\* A successful turn whose send failed, in a channel that already had history.
Wit_C13_SendFailed ==
    \E p \in Procs :
        /\ Done(p) /\ hs[p].outcome = "ok" /\ hs[p].sendFailed
        /\ Alone(p) /\ hs[p].before # <<>>

\* The text of a message: its string content, or the text part of its content parts.
TurnText(m) ==
    IF m.Content.type = "string" THEN m.Content.text
    ELSE IF m.Content.type = "items" /\ m.Content.items # <<>>
              /\ m.Content.items[1].Type = "text"
         THEN m.Content.items[1].Text
         ELSE <<>>

\* Whether a text holds the bot's mention markup or, in any letter case, the trigger token.
HasRawMention(text) == Contains(text, BotMarkup) \/ Contains(ToLower(text), TriggerToken)

\* C14: with capacity C, history H and no other handler running, a successful
\* addressed turn whose text is "@grok hi" sends the request
\* [system] ++ H ++ [user "hi"] and leaves the channel's history equal to the last C
\* entries of H ++ [user "hi", assistant reply].
Cex_C14_WorkedExample ==
    \A p \in Procs :
        (/\ Done(p) /\ Alone(p) /\ hs[p].outcome = "ok"
         /\ hs[p].ev.text = <<"@", "g", "r", "o", "k", " ", "h", "i">>
         /\ hs[p].ev.attachments = <<>>)
        => LET u == CreateTextMessage("user", <<"h", "i">>, UsernameOf(hs[p].ev.author))
               a == CreateTextMessage("assistant", hs[p].response, <<>>)
           IN /\ hs[p].messages = <<SystemMessage>> \o hs[p].before \o <<u>>
              /\ Stored(hs[p].ev.channel) = LastN(hs[p].before \o <<u, a>>, maxMessages)

\* C15: the user turn of an addressed message, as sent in the request and as
\* stored in the history, contains neither the bot's mention markup nor the
\* trigger token in any letter case.
Cex_C15_NoRawMention ==
    \A p \in Procs :
        /\ (hs[p].messages # <<>> =>
                ~HasRawMention(TurnText(Deref(parts, hs[p].messages[Len(hs[p].messages)]))))
        /\ (hs[p].outcome = "ok" /\ hs[p].appended # <<>> =>
                ~HasRawMention(TurnText(Deref(parts, hs[p].appended[1]))))

\* C16: the text of the user turn of an addressed message has no leading or
\* trailing whitespace.
Cex_C16_TurnTrimmed ==
    \A p \in Procs :
        hs[p].messages # <<>> =>
            LET t == TurnText(Deref(parts, hs[p].messages[Len(hs[p].messages)]))
            IN TrimSpace(t) = t

\* C17: cleaning, by the live handler or by the seeding routine, a trimmed text
\* that holds no mention markup and no trigger token returns that text unchanged,
\* character for character, letter case included.
Cex_C17_CleanIdempotent ==
    (/\ fn.op \in {"LiveClean", "SeedClean"} /\ fn.done
     /\ TrimSpace(fn.text) = fn.text
     /\ ~HasRawMention(fn.text))
    => fn.out = fn.text

\* C18: CreateMultimodalMessage with no image reference returns a plain text
\* message; with at least one it returns content parts: one text part first if and
\* only if the text is not empty, then exactly one image part per reference, in order.
Thm_C18_MultimodalShape ==
    (fn.op = "CreateMultimodalMessage" /\ fn.done) =>
        LET m == fn.out
            n == Len(fn.images)
            k == IF fn.text # <<>> THEN 1 ELSE 0
        IN /\ m.Role = fn.role /\ m.Username = fn.username
           /\ IF n = 0
              THEN m.Content = [type |-> "string", text |-> fn.text]
              ELSE /\ m.Content.type = "items"
                   /\ Len(m.Content.items) = k + n
                   /\ \A j \in 1..Len(m.Content.items) :
                         IF j <= k
                         THEN /\ m.Content.items[j].Type = "text"
                              /\ m.Content.items[j].Text = fn.text
                         ELSE /\ m.Content.items[j].Type = "image_url"
                              /\ m.Content.items[j].URL = fn.images[j - k]

\* A message made of two images and no text.
Wit_C18_ImagesOnly ==
    /\ fn.op = "CreateMultimodalMessage" /\ fn.done
    /\ fn.text = <<>> /\ Len(fn.images) = 2 /\ fn.images[1] # fn.images[2]

\* C19: in the request every user message with a non-empty username has its text,
\* the plain string or each text part, rewritten as "[username]: text"; system and
\* assistant messages, user messages without username and image parts are unchanged.
Thm_C19_UsernamePrefix ==
    (fn.op = "FormatMessages" /\ fn.done) =>
        /\ Len(fn.out) = Len(fn.msgs)
        /\ \A i \in 1..Len(fn.msgs) :
              LET m == fn.msgs[i]
                  f == fn.out[i]
                  pre == <<"[">> \o m.Username \o <<"]", ":", " ">>
              IN IF m.Role = "user" /\ m.Username # <<>>
                 THEN /\ f.Role = m.Role /\ f.Username = m.Username
                      /\ f.Content.type = m.Content.type
                      /\ IF m.Content.type = "string"
                         THEN f.Content.text = pre \o m.Content.text
                         ELSE /\ Len(f.Content.items) = Len(m.Content.items)
                              /\ \A j \in 1..Len(m.Content.items) :
                                    IF m.Content.items[j].Type = "text"
                                    THEN /\ f.Content.items[j].Type = "text"
                                         /\ f.Content.items[j].Text =
                                               pre \o m.Content.items[j].Text
                                    ELSE f.Content.items[j] = m.Content.items[j]
                 ELSE f = m

\* A request with a named user message of text and image parts next to an
\* assistant message that carries a username.
Wit_C19_MixedRequest ==
    /\ fn.op = "FormatMessages" /\ fn.done /\ Len(fn.msgs) = 2
    /\ fn.msgs[1].Role = "user" /\ fn.msgs[1].Username # <<>>
    /\ fn.msgs[1].Content.type = "items" /\ Len(fn.msgs[1].Content.items) = 3
    /\ fn.msgs[2].Role = "assistant" /\ fn.msgs[2].Username # <<>>

\* The user message of handler q as the request carries it: the prefix once, in
\* front of the text the history holds.
TaggedOnce(q) ==
    LET pre == <<"[">> \o UsernameOf(hs[q].ev.author) \o <<"]", ":", " ">>
        images == [i \in 1..Len(hs[q].imageURLs) |->
                      [Type |-> "image_url", Text |-> <<>>, URL |-> hs[q].imageURLs[i]]]
    IN [Role |-> "user",
        Content |-> IF hs[q].imageURLs = <<>>
                    THEN [type |-> "string", text |-> pre \o hs[q].content]
                    ELSE [type |-> "items",
                          items |-> (IF hs[q].content = <<>> THEN <<>>
                                     ELSE <<[Type |-> "text", Text |-> pre \o hs[q].content,
                                             URL |-> ""]>>) \o images],
        Username |-> UsernameOf(hs[q].ev.author)]

\* Every user entry of the stored histories is the untagged message of the
\* handler that appended it.
StoredUntagged ==
    \A k \in Keys : \A i \in 1..Len(Stored(k)) :
        Stored(k)[i].Role = "user" =>
            \E q \in Procs :
                /\ \E n \in 1..Len(hs[q].appended) : hs[q].appended[n] = Stored(k)[i]
                /\ Deref(parts, Stored(k)[i]) = UserMessage(q)

\* Every user message of a request that was sent carries the prefix exactly once.
WireTaggedOnce ==
    \A p \in Procs :
        hs[p].wire # <<>> =>
            /\ Len(hs[p].wire) = Len(hs[p].messages)
            /\ \A j \in 1..Len(hs[p].messages) :
                  IF hs[p].messages[j].Role = "user"
                  THEN \E q \in Procs :
                          /\ \/ q = p /\ j = Len(hs[p].messages)
                             \/ \E n \in 1..Len(hs[q].appended) :
                                    hs[q].appended[n] = hs[p].messages[j]
                          /\ hs[p].wire[j] = TaggedOnce(q)
                  ELSE hs[p].wire[j] = hs[p].messages[j]

\* C20: formatting the request changes no stored state: CreateChatCompletion
\* leaves the messages it was passed, content parts included, as they were, so
\* every stored user entry stays untagged and each user message of each request
\* carries the username prefix exactly once.
Thm_C20_FormatKeepsState ==
    [][/\ Len(parts') >= Len(parts)
       /\ \A r \in 1..Len(parts) : parts'[r] = parts[r]
       /\ \A p \in Procs :
             hs'[p].completions # hs[p].completions =>
                 /\ hs'[p].messages = hs[p].messages
                 /\ \A j \in 1..Len(hs[p].messages) :
                       Deref(parts', hs[p].messages[j]) = Deref(parts, hs[p].messages[j])
       /\ StoredUntagged'
       /\ WireTaggedOnce']_vars

\* A request whose history holds a stored user message with text and image parts.
Wit_C20_StoredPartsSent ==
    \E p \in Procs :
        /\ hs[p].wire # <<>>
        /\ \E j \in 2..(Len(hs[p].messages) - 1) :
              /\ hs[p].messages[j].Role = "user"
              /\ hs[p].messages[j].Content.type = "itemsRef"
              /\ Len(parts[hs[p].messages[j].Content.ref]) = 2
              /\ \E i \in 1..Len(Stored(hs[p].ev.channel)) :
                    Stored(hs[p].ev.channel)[i] = hs[p].messages[j]

\* ------------------------------------------------- claims on sending
\* Whether a call occurs among the calls a send made.
Made(calls, c) == \E i \in 1..Len(calls) : calls[i] = c

\* Whether the temporary file exists after the calls: created and not removed since.
TempFileLeft(calls) ==
    \E i \in 1..Len(calls) :
        calls[i] = "create" /\ \A j \in (i + 1)..Len(calls) : calls[j] # "remove"

\* C21: sendMessage routes by size: a reply of at most the configured inline size,
\* boundary included, is sent as one text message and no file is created; a longer
\* reply is never sent as a text message and takes the file path.
Thm_C21_RouteBySize ==
    (fn.op = "sendMessage" /\ fn.done) =>
        IF fn.size <= fn.max
        THEN fn.out.calls = <<"text">>
        ELSE /\ ~Made(fn.out.calls, "text")
             /\ fn.out.calls[1] \in {"create", "createFailed"}

\* A reply of exactly the configured size, sent as text.
Wit_C21_Boundary ==
    /\ fn.op = "sendMessage" /\ fn.done
    /\ fn.size = fn.max /\ fn.out.calls = <<"text">> /\ fn.out.err = ""

\* C22: once the temporary file was created, it no longer exists when
\* sendAsMarkdownFile has returned, by whichever path: write failure, stat
\* failure, oversize, open failure, send failure or success.
Thm_C22_TempFileRemoved ==
    (fn.op = "sendMessage" /\ fn.done /\ Made(fn.out.calls, "create")) =>
        /\ ~TempFileLeft(fn.out.calls)
        /\ fn.out.err \in {"write", "stat", "oversize", "open", "send", ""}

\* A file send that failed after the file had been opened.
Wit_C22_SendFailure ==
    /\ fn.op = "sendMessage" /\ fn.done
    /\ fn.out.err = "send" /\ Made(fn.out.calls, "file") /\ Made(fn.out.calls, "create")

\* The Discord sends, of text or of a file, among the calls a handler made.
Sends(p) == {i \in 1..Len(hs[p].outbound) : hs[p].outbound[i] \in {"text", "file"}}

\* C23: when the file written for an oversize reply exceeds the 8 MiB ceiling,
\* sendAsMarkdownFile returns an error without calling the file send, and the
\* handler only logs it: no retry and no other send.
Thm_C23_CeilingFailsSend ==
    \A p \in Procs :
        (/\ hs[p].outcome = "ok" /\ hs[p].sent # <<>>
         /\ ByteLen(hs[p].response) > MaxDiscordFileSize
         /\ Made(hs[p].outbound, "stat") /\ hs[p].sendErr # "stat")
        => /\ hs[p].sendErr = "oversize" /\ hs[p].sendFailed
           /\ Sends(p) = {}
           /\ hs[p].sent = <<hs[p].response>>
           /\ hs[p].completions = 1
           /\ ~TempFileLeft(hs[p].outbound)
           /\ Done(p)

\* A turn whose reply is one byte over the ceiling.
Wit_C23_Oversize ==
    \E p \in Procs :
        /\ Done(p) /\ hs[p].sendErr = "oversize"
        /\ ByteLen(hs[p].response) = MaxDiscordFileSize + 1

\* C24: a handler invocation for an addressed message attempts at most one send,
\* of text or of a file, and ends in one pass: the apology if the completion call
\* failed, else the reply; a failed send of the reply is followed by no retry and
\* no apology, and the two history entries appended before it stay.
Thm_C24_OneSendOnePass ==
    [][\A p \in Procs :
          /\ (Done(p) => hs'[p] = hs[p] /\ bpc'[p] = bpc[p])
          /\ Cardinality(Sends(p)') <= 1
          /\ Len(hs'[p].sent) <= 1
          /\ hs'[p].completions <= 1
          /\ (Done(p)' /\ hs'[p].outcome \in ErrorKinds =>
                  hs'[p].sent = <<ApologyText>> /\ hs'[p].outbound = <<"text">>)
          /\ (Done(p)' /\ hs'[p].outcome = "ok" =>
                  /\ hs'[p].sent = <<hs'[p].response>>
                  /\ Len(hs'[p].appended) = 2
                  /\ \A n \in 1..2 : \E i \in 1..Len(log'[hs'[p].ev.channel]) :
                        log'[hs'[p].ev.channel][i] = hs'[p].appended[n])]_vars

\* A turn whose file send failed: one send attempted, both entries in the history.
Wit_C24_FailedFileSend ==
    \E p \in Procs :
        /\ Done(p) /\ hs[p].outcome = "ok" /\ hs[p].sendErr = "send"
        /\ Made(hs[p].outbound, "file")

\* ------------------------------------------------- claims on CreateChatCompletion
\* A completed call that received a response.
Received == fn.op = "CreateChatCompletion" /\ fn.done /\ fn.exchange.kind = "response"

\* C25: for a status other than 200 CreateChatCompletion never returns text: a
\* body that is a structured error with a non-empty message gives an error with
\* the remote message and code, any other body an error with the raw status and body.
Thm_C25_StatusErrors ==
    (Received /\ fn.exchange.status # 200) =>
        LET b == fn.exchange.body
        IN /\ ~fn.out.ok /\ fn.out.text = <<>>
           /\ IF b.json = "object" /\ b.error.kind = "object" /\ b.error.message # <<>>
              THEN /\ fn.out.err = "api"
                   /\ fn.out.detail.message = b.error.message
                   /\ fn.out.detail.code = b.error.code
              ELSE /\ fn.out.err = "status"
                   /\ fn.out.detail.status = fn.exchange.status
                   /\ fn.out.detail.body = b

\* A failure status whose body is a structured error with an empty message.
Wit_C25_EmptyMessage ==
    /\ Received /\ fn.exchange.status = 500
    /\ fn.exchange.body.json = "object" /\ fn.exchange.body.error.kind = "object"
    /\ fn.exchange.body.error.message = <<>>
    /\ fn.out.err = "status"

\* C26: on status 200 CreateChatCompletion fails, returning no text, when the body
\* does not decode as a response or holds no choice; in every case it has made one
\* request, and its result depends on the first choice only.
Thm_C26_ProtocolErrors ==
    (Received /\ fn.exchange.status = 200) =>
        LET b == fn.exchange.body
        IN /\ fn.out.requests = 1
           /\ IF b.json # "object" \/ b.choices.kind = "number"
              THEN ~fn.out.ok /\ fn.out.text = <<>> /\ fn.out.err = "unmarshal"
              ELSE IF b.choices.kind = "absent" \/ b.choices.items = <<>>
              THEN ~fn.out.ok /\ fn.out.text = <<>> /\ fn.out.err = "nochoices"
              ELSE /\ fn.out.err \notin {"unmarshal", "nochoices"}
                   /\ (b.choices.items[1].kind = "string" =>
                          fn.out.ok /\ fn.out.text = b.choices.items[1].text)

\* A response of two choices with different contents, answered with the first.
Wit_C26_TwoChoices ==
    /\ Received /\ fn.exchange.status = 200 /\ fn.out.ok
    /\ fn.exchange.body.choices.kind = "array" /\ Len(fn.exchange.body.choices.items) = 2
    /\ fn.exchange.body.choices.items[2] # fn.exchange.body.choices.items[1]

\* The text of the parts tagged as text, in order.
RECURSIVE JoinTextParts(_)
JoinTextParts(items) ==
    IF items = <<>> THEN <<>>
    ELSE (IF Head(items).Type = "text" THEN Head(items).Text ELSE <<>>)
         \o JoinTextParts(Tail(items))

\* C27: when the first choice's content in a 200 response is a sequence of typed
\* parts, CreateChatCompletion succeeds and returns the texts of the parts tagged
\* as text, concatenated in order; image parts are dropped.
Cex_C27_PartsResponse ==
    (/\ Received /\ fn.exchange.status = 200
     /\ fn.exchange.body.json = "object" /\ fn.exchange.body.choices.kind = "array"
     /\ fn.exchange.body.choices.items # <<>>
     /\ fn.exchange.body.choices.items[1].kind = "array")
    => /\ fn.out.ok
       /\ fn.out.text = JoinTextParts(fn.exchange.body.choices.items[1].items)

\* ------------------------------------------------- claims on message content
\* A message with no text and no image part.
IsEmptyMessage(m) ==
    IF m.Content.type = "string" THEN m.Content.text = <<>>
    ELSE IF m.Content.type = "items"
    THEN \A i \in 1..Len(m.Content.items) :
            m.Content.items[i].Type = "text" /\ m.Content.items[i].Text = <<>>
    ELSE TRUE

\* C28: no message stored in a channel's history and no message placed in a
\* completion request has both empty text and zero image parts, whatever the
\* inbound event (empty text, only non-image attachments, only the bot mention).
Cex_C28_NoEmptyMessage ==
    /\ \A k \in Keys : \A i \in 1..Len(Stored(k)) :
          ~IsEmptyMessage(Deref(parts, Stored(k)[i]))
    /\ \A p \in Procs : \A j \in 1..Len(hs[p].messages) :
          ~IsEmptyMessage(Deref(parts, hs[p].messages[j]))

\* A supported image attachment whose download succeeded.
Usable(att) == att.image /\ att.ok

\* C29: image resolution is per attachment and not fatal: the resolved list is
\* exactly the supported image attachments whose download succeeded, in the
\* order of the attachments; a failing attachment removes only itself; a message
\* with text and no resolved image becomes a plain text message.
Thm_C29_ImagesPerAttachment ==
    (fn.op = "userTurn" /\ fn.done) =>
        LET good == SelectSeq(fn.attachments, Usable)
        IN /\ Len(fn.out.imageURLs) = Len(good)
           /\ \A i \in 1..Len(good) : fn.out.imageURLs[i] = <<"data", good[i].url>>
           /\ (fn.text # <<>> /\ good = <<>> =>
                  fn.out.message =
                      [Role |-> "user", Content |-> [type |-> "string", text |-> fn.text],
                       Username |-> UsernameOf(UserID)])

\* A failed download in front of a successful one.
Wit_C29_FailedThenResolved ==
    /\ fn.op = "userTurn" /\ fn.done
    /\ Len(fn.attachments) = 2
    /\ fn.attachments[1].image /\ ~fn.attachments[1].ok
    /\ Usable(fn.attachments[2])
    /\ Len(fn.out.imageURLs) = 1

\* ----------------------------------------------- claims on concurrent handlers
\* The Appends of handler p to key k that have returned, in the order p issued
\* them: an Append still under the mutex has not yet taken effect.
Committed(p, k) ==
    IF hs[p].ev.channel # k THEN <<>>
    ELSE IF hpc[p] = "lockedAppend"
         THEN SubSeq(hs[p].appended, 1, Len(hs[p].appended) - 1)
         ELSE hs[p].appended

\* s is an interleaving of the sequences f[p]: every element of every f[p] occurs
\* once in s, and the elements of one f[p] keep their order.
RECURSIVE IsInterleaving(_, _)
IsInterleaving(s, f) ==
    IF s = <<>> THEN \A p \in DOMAIN f : f[p] = <<>>
    ELSE \E p \in DOMAIN f :
            /\ f[p] # <<>>
            /\ Head(f[p]) = Head(s)
            /\ IsInterleaving(Tail(s), [f EXCEPT ![p] = Tail(@)])

IsPrefix(s, t) == Len(s) <= Len(t) /\ s = SubSeq(t, 1, Len(s))

\* C30: the history operations of concurrent handlers are linearizable. For each
\* key there is one order of the Appends that returned (the order in which they
\* held the mutex) such that: that order is an interleaving of the handlers'
\* Appends, so none is lost or duplicated and two Appends of one handler keep
\* their order; whenever no Append to the key is in progress the stored history
\* is what the Appends give when run one after the other in that order; and
\* every Get returned what the store held after a prefix of that order.
Thm_C30_Linearizable ==
    /\ \A k \in Keys :
          /\ IsInterleaving(log[k], [p \in Procs |-> Committed(p, k)])
          /\ (\A p \in Procs : hpc[p] = "lockedAppend" => call[p].key # k)
                => Stored(k) = LastN(log[k], maxMessages)
    /\ \A p \in Procs :
          /\ (bpc[p] = "getting" /\ hpc[p] = "ret") =>
                /\ IsPrefix(seen[p], log[hs[p].ev.channel])
                /\ Elems(heap, retval[p].slice) = LastN(seen[p], maxMessages)
          /\ hs[p].messages # <<>> =>
                /\ IsPrefix(hs[p].prior, log[hs[p].ev.channel])
                /\ SubSeq(hs[p].messages, 2, Len(hs[p].messages) - 1)
                      = LastN(hs[p].prior, maxMessages)

\* Two handlers ran in one channel at the same time: the other handler's Append
\* took the mutex between the two Appends of a turn, and its Get read the
\* history between them as well.
Wit_C30_Interleaved ==
    \E p \in Procs, q \in Procs, k \in Keys :
        /\ p # q
        /\ mu = NoOwner
        /\ hs[p].ev.channel = k /\ hs[q].ev.channel = k
        /\ Len(hs[p].appended) = 2 /\ Len(hs[q].appended) = 2
        /\ hpc[p] # "lockedAppend" /\ hpc[q] # "lockedAppend"
        /\ Len(log[k]) = 4
        /\ Len(hs[q].prior) = 1
        /\ maxMessages = 3
        /\ log[k][1] = hs[p].appended[1]
        /\ log[k][2] = hs[q].appended[1]
        /\ log[k][3] = hs[p].appended[2]
        /\ log[k][4] = hs[q].appended[2]
        /\ hs[p].appended[2] # hs[q].appended[1]

\* ------------------------------------------ claims on failures of a turn
\* Handler p has returned from a turn whose completion call failed.
FailedTurn(p) == Done(p) /\ hs[p].outcome \in ErrorKinds

\* C31: what a failed completion call leaves behind does not depend on the error.
\* A handler whose completion call failed has sent one text, the fixed apology,
\* and appended nothing, whatever the error was; two failed turns, also with
\* different errors, have made the same sends; and the history of the channel of
\* a failed turn that ran alone is what it was when the event arrived.
Thm_C31_ErrorNotExposed ==
    /\ \A p \in Procs :
          FailedTurn(p) =>
              /\ hs[p].sent = <<ApologyText>>
              /\ hs[p].outbound = <<"text">>
              /\ hs[p].appended = <<>>
              /\ (Alone(p) => Stored(hs[p].ev.channel) = hs[p].before)
    /\ \A p \in Procs, q \in Procs :
          (FailedTurn(p) /\ FailedTurn(q)) =>
              /\ hs[p].sent = hs[q].sent
              /\ hs[p].outbound = hs[q].outbound
              /\ hs[p].appended = hs[q].appended

\* Two turns on the same event have failed with errors of different kinds.
Wit_C31_TwoErrors ==
    \E p \in Procs, q \in Procs :
        /\ FailedTurn(p) /\ FailedTurn(q)
        /\ hs[p].ev = hs[q].ev
        /\ hs[p].outcome = "transport" /\ hs[q].outcome = "protocol"
        /\ log[hs[p].ev.channel] = <<>>

\* ------------------------------------------------ claims on startup seeding
\* The seeding of the channel has ended.
SeedEnded == sd.pc \in {"done", "skipped"}

\* The fetches made so far follow the retry rule: the first has the capacity as
\* its limit; each later one follows an "unknown component type" error, has half
\* the limit of the one before, rounded down, and a limit of at least 5.
RetryRule ==
    /\ Len(sd.tried) = Len(sd.results)
    /\ sd.tried # <<>> => sd.tried[1] = maxMessages
    /\ \A k \in 2..Len(sd.tried) :
          /\ sd.results[k - 1] = "component"
          /\ sd.tried[k] = sd.tried[k - 1] \div 2
          /\ sd.tried[k] >= 5

\* C32: when the full-size fetch of the seeding fails with "unknown component
\* type", the fetch is retried with capacity/2, capacity/4, ... while the batch
\* size is at least 5, up to the first success or the first other error; the
\* messages are processed only after a successful fetch; a channel none of whose
\* fetches succeeded is skipped with nothing appended; and the seeding of the
\* channel ends.
Thm_C32_RetryHalving ==
    /\ [](/\ RetryRule
          /\ sd.pc \in {"scan", "pair", "done"} =>
                sd.results # <<>> /\ sd.results[Len(sd.results)] = ""
          /\ sd.pc = "skipped" =>
                /\ sd.results # <<>>
                /\ sd.results[Len(sd.results)] # ""
                /\ (sd.results[Len(sd.results)] = "component"
                      => sd.tried[Len(sd.tried)] \div 2 < 5)
                /\ sd.appended = <<>>
                /\ Stored(SeedChannel) = <<>>)
    /\ <>SeedEnded

\* A capacity of 20: the fetches of 20 and of 10 messages were rejected, the
\* fetch of 5 messages succeeded and its messages were appended.
Wit_C32_ThirdFetch ==
    /\ sd.pc = "done"
    /\ sd.tried = <<20, 10, 5>>
    /\ sd.results = <<"component", "component", "">>
    /\ Len(Stored(SeedChannel)) = 2

\* The fetched message an entry of the seeding was built from.
SourceOf(n) == sd.messages[sd.appended[n].src]

IsAssistantEntry(n) == sd.appended[n].msg.Role = "assistant"

\* The fetched message at index i was addressed to the bot.
AddressedAt(i) == SeedAddressed(sd.messages[i], TrimSpace(sd.messages[i].text))

\* The newer messages the search for a reply to the message at index i covers:
\* the next four, newer ones having smaller indices.
Lookback(i) == {j \in 1..Len(sd.messages) : j < i /\ i - j <= 4}

\* The messages of the seeding whose Append has returned.
SeedCommitted ==
    LET all == [n \in 1..Len(sd.appended) |-> sd.appended[n].msg]
    IN IF hpc[SeedProc] = "lockedAppend" THEN SubSeq(all, 1, Len(all) - 1) ELSE all

\* C33: the seeding pairs replies within a fixed window. Every assistant entry
\* directly follows the user entry of an addressed message; it is built from a
\* message of the bot among the next 4 newer fetched messages, the first of the
\* bot in that direction, and holds its trimmed, non-empty text; so an addressed
\* message gets at most one assistant entry, and a message of the bot is appended
\* in no other way. The history holds these entries in the order of appending.
Thm_C33_LookbackPairing ==
    /\ \A n \in 1..Len(sd.appended) :
          IF IsAssistantEntry(n)
          THEN /\ n > 1
               /\ ~IsAssistantEntry(n - 1)
               /\ AddressedAt(sd.appended[n - 1].src)
               /\ sd.appended[n].src \in Lookback(sd.appended[n - 1].src)
               /\ IsOwnMessage(SourceOf(n))
               /\ \A j \in Lookback(sd.appended[n - 1].src) :
                     j > sd.appended[n].src => ~IsOwnMessage(sd.messages[j])
               /\ TrimSpace(SourceOf(n).text) # <<>>
               /\ sd.appended[n].msg =
                     CreateTextMessage("assistant", TrimSpace(SourceOf(n).text), <<>>)
          ELSE /\ sd.appended[n].msg.Role = "user"
               /\ ~IsOwnMessage(SourceOf(n))
    /\ log[SeedChannel] = SeedCommitted
    /\ hpc[SeedProc] # "lockedAppend" =>
          Stored(SeedChannel) = LastN(log[SeedChannel], maxMessages)

\* The reply of the bot is the fifth newer message after an addressed one, with
\* four messages of users between them: the seeding ended without an assistant
\* entry.
Wit_C33_OutsideWindow ==
    /\ sd.pc = "done"
    /\ Len(sd.messages) = 6
    /\ AddressedAt(6)
    /\ \A j \in 2..5 : ~IsOwnMessage(sd.messages[j]) /\ ~AddressedAt(j)
    /\ IsOwnMessage(sd.messages[1]) /\ TrimSpace(sd.messages[1].text) # <<>>
    /\ Len(sd.appended) = 5
    /\ \A n \in 1..Len(sd.appended) : ~IsAssistantEntry(n)

\* The entries of the seeding that the history of the channel retains: the last
\* ones, as many as the stored sequence holds.
Retained ==
    {n \in 1..Len(sd.appended) : n > Len(sd.appended) - Len(Stored(SeedChannel))}

\* C39: after the seeding of a channel with no live events, the entries of the
\* channel's history are in the chronological order of the fetched messages they
\* were built from, oldest first (an older message has the larger index in the
\* fetched list), and no fetched message of the bot is the source of two
\* assistant entries.
Cex_C39_ChronologicalOnce ==
    sd.pc = "done" =>
        /\ \A n \in Retained, k \in Retained :
              n < k => sd.appended[n].src >= sd.appended[k].src
        /\ \A n \in Retained, k \in Retained :
              (n # k /\ IsAssistantEntry(n) /\ IsAssistantEntry(k))
                  => sd.appended[n].src # sd.appended[k].src

\* ------------------------------------- claims on seeding with live events
\* The user entries the live handler has stored for its message.
LiveUserEntries ==
    Cardinality({n \in 1..Len(Committed(LiveProc, SeedChannel)) :
                    Committed(LiveProc, SeedChannel)[n].Role = "user"})

\* The user entries the seeding has stored for the message of the live handler.
SeedUserEntriesOfLive ==
    Cardinality({n \in 1..Len(SeedCommitted) :
                    /\ sd.live # 0
                    /\ sd.appended[n].src = sd.live
                    /\ sd.appended[n].msg.Role = "user"})

\* C38: a platform message contributes at most one user entry to the history of
\* its channel, also when it is handled live while the seeding of the channel is
\* in progress (stated for a history that has dropped no entry), and the entries
\* of the seeding precede every entry of the live handler.
Cex_C38_SeedThenLive ==
    /\ Len(log[SeedChannel]) <= maxMessages =>
          LiveUserEntries + SeedUserEntriesOfLive <= 1
    /\ log[SeedChannel] = SeedCommitted \o Committed(LiveProc, SeedChannel)

\* ------------------------------------------- claims on the content of copies
\* The stored history of a key with the content parts of its messages.
StoredContent(k) == [i \in 1..Len(Stored(k)) |-> Deref(parts, Stored(k)[i])]

\* C34: the copy Get returns is independent down to the content of its messages.
\* When a caller modifies a content part (the text or the image reference) of a
\* multimodal message in the sequence it got from Get, the content parts of the
\* messages stored for every key, which a later Get returns, stay as they were.
Cex_C34_ContentIndependent ==
    [][(\E p \in Procs : EditPart(p)) => \A k \in Keys : StoredContent(k)' = StoredContent(k)]_vars

\* ------------------------------------------------ claims on a turn's entries
\* s without its elements n and n + 1.
WithoutPair(s, n) == SubSeq(s, 1, n - 1) \o SubSeq(s, n + 2, Len(s))

\* C35: the two entries of a successful addressed turn are stored as a unit.
\* When both Appends of a handler have returned and the history of the channel
\* has dropped no entry, the user entry and the assistant entry of the turn are
\* next to each other in the channel's history, the entries of the other
\* handlers being before or after the pair.
Cex_C35_TurnAdjacent ==
    \A p \in Procs, k \in Keys :
        (Len(Committed(p, k)) = 2 /\ Len(log[k]) <= maxMessages /\ mu = NoOwner) =>
            \E n \in 1..(Len(Stored(k)) - 1) :
                /\ Stored(k)[n] = Committed(p, k)[1]
                /\ Stored(k)[n + 1] = Committed(p, k)[2]
                /\ IsInterleaving(WithoutPair(Stored(k), n),
                                  [q \in Procs \ {p} |-> Committed(q, k)])

\* ------------------------------------------- claims on waiting handlers
\* Handler p is in an external call: the completion call, or a send.
Waiting(p) == bpc[p] \in {"complete", "failed"} \/ ReadyToSend(p)

\* p is inside a method of the history store, holding the mutex.
InMethod(p) == hpc[p] \in {"lockedAppend", "lockedGet", "lockedSetMax"}

\* C36: the mutex of the history is never held across an external call. A handler
\* that has not taken up its event, or waits for the completion call or for a
\* send, does not hold the mutex; whoever holds it is inside a method of the
\* store; and, with no assumption that any external call ever returns, each
\* handler's call of the store that is due is made and returns: the Append or
\* Get after the arrival of the event, and the two Appends after the reply.
Thm_C36_NoLockAcrossCalls ==
    /\ [](\A p \in Procs :
            /\ (Waiting(p) \/ bpc[p] \in {"idle", "done"}) => (mu # p /\ ~InMethod(p))
            /\ mu = p => InMethod(p))
    /\ \A q \in Procs :
          /\ bpc[q] = "extracted" ~> (bpc[q] \in {"done", "complete"})
          /\ bpc[q] = "replied" ~> ReadyToSend(q)

\* One handler is still waiting for its completion call; the other one, whose
\* event arrived while the first was running, has made its calls of the store
\* and returned.
Wit_C36_OtherCompleted ==
    \E p \in Procs, q \in Procs :
        /\ p # q
        /\ bpc[p] = "complete"
        /\ hs[q].rivals[p] = "running"
        /\ Done(q)
        /\ hs[q].ev.channel = hs[p].ev.channel
        /\ Len(hs[q].appended) = 2

\* ------------------------------------------- claims on what the methods change
\* C37: Append(key, m) changes only the sequence of its key: in both of its steps
\* the sequence of every other key, the keys other than its own and the capacity
\* stay as they are (and the first step, which works on a local slice, changes
\* no sequence); no step of Get or of GetMax changes the map, any sequence, or
\* the capacity.
Thm_C37_FrameOfMethods ==
    [][\A p \in Procs :
         /\ (call'[p].op = "Append" /\ hpc'[p] = "lockedAppend" /\ hpc[p] # "lockedAppend") =>
               /\ channelToMessages' = channelToMessages
               /\ maxMessages' = maxMessages
               /\ \A k \in Keys : Stored(k)' = Stored(k)
         /\ (hpc[p] = "lockedAppend" /\ hpc'[p] = "ret") =>
               /\ maxMessages' = maxMessages
               /\ DOMAIN channelToMessages' = DOMAIN channelToMessages \cup {call[p].key}
               /\ \A k \in Keys \ {call[p].key} :
                     /\ Stored(k)' = Stored(k)
                     /\ k \in DOMAIN channelToMessages =>
                           channelToMessages'[k] = channelToMessages[k]
         /\ (\/ call'[p].op = "Get" /\ hpc'[p] = "lockedGet" /\ hpc[p] # "lockedGet"
             \/ hpc[p] = "lockedGet" /\ hpc'[p] = "ret"
             \/ call'[p].op = "GetMax" /\ hpc'[p] = "ret" /\ hpc[p] = "idle") =>
               /\ channelToMessages' = channelToMessages
               /\ maxMessages' = maxMessages
               /\ \A k \in Keys : Stored(k)' = Stored(k)
      ]_vars

\* An Append to one key has returned while the other key holds messages, more
\* than the key of the Append.
Wit_C37_OtherKeyKept ==
    \E p \in Procs, k \in Keys :
        /\ hpc[p] = "ret" /\ call[p].op = "Append" /\ call[p].key # k
        /\ Len(Stored(k)) = 2
        /\ Len(Stored(call[p].key)) = 1
        /\ Stored(k)[1] # Stored(call[p].key)[1]
====
